---------------------------- MODULE Spec2Model ----------------------------
(***************************************************************************)
(* Search & scoring orchestration of ARQV30 (src/src/services/             *)
(* search_api_manager.py, src/src/routes/enhanced_workflow.py).            *)
(*                                                                         *)
(* The module holds several specifications over one set of variables:      *)
(*   SpecKeys   the key-rotation registry called from concurrent threads   *)
(*   Spec       one pipeline run (execute_massive_search_with_websailor)   *)
(*   SpecScore  _calculate_viral_score applied to one post                 *)
(*   SpecViral  _identify_viral_content applied to a list of posts         *)
(*   SpecCategory, SpecBatch  _identify_viral_content around the category  *)
(*              thresholds                                                 *)
(*   SpecApi    the run up to the end of its keyed-API phase, with weak    *)
(*              fairness of the turns of the provider loop                 *)
(*   SpecWorkflow  the stage triggers, their threads and the status query  *)
(*   SpecTrigger   the triggers, rejected ones included, and their threads *)
(*   SpecComplete  the complete-workflow trigger and the status query      *)
(*   SpecDownload  download_workflow_file applied to a session directory   *)
(* A specification leaves the variables of the others at their initial     *)
(* values.                                                                 *)
(***************************************************************************)
EXTENDS Integers, Sequences, FiniteSets, TLC

VARIABLES
    api_keys,       \* SearchAPIManager.api_keys: provider -> list of keys
    key_indices,    \* SearchAPIManager.key_indices: provider -> cursor
    caller,         \* per thread: its position inside get_next_key
    log,            \* history: per provider, the keys get_next_key returned
    raced,          \* history: per provider, did two calls ever overlap
    ncalls,         \* history: number of get_next_key calls started
    last_call,      \* history: the last get_next_key call that returned
                    \* (n: how many have returned so far)
    post,           \* SpecScore: the post handed to _calculate_viral_score
    viral_score,    \* SpecScore: what _calculate_viral_score returned
    all_posts,      \* SpecViral: social_results['all_posts']
    viral_content,  \* SpecViral: what _identify_viral_content returned
    viral_pc,       \* SpecViral: "collecting", then "returned" or "raised"
    nbatches,       \* SpecViral: batches of posts collected so far
    websailor_enabled,          \* SearchAPIManager.websailor_enabled
    social_search_enabled,      \* SearchAPIManager.social_search_enabled
    screenshot_capture_enabled, \* SearchAPIManager.screenshot_capture_enabled
    pc,             \* Spec: where the pipeline run stands
    run,            \* Spec: the locals of the run's phase in progress
    search_results, \* Spec: the run's search_results
    calls,          \* history: the collaborators the run has called, in order
    files,          \* SpecWorkflow: the files on disk, (session, name) -> state
    tasks,          \* SpecWorkflow: the background threads started so far
    nminted,        \* SpecWorkflow: session identifiers minted so far
    query,          \* SpecWorkflow: the status query in progress
    reply,          \* SpecWorkflow: what the last status query returned
    ack,            \* SpecWorkflow: what the last stage-start trigger returned
    download        \* SpecDownload: what the last download query returned

keyVars == <<api_keys, key_indices>>
callVars == <<caller, log, raced, ncalls, last_call>>
scoreVars == <<post, viral_score>>
viralVars == <<all_posts, viral_content, viral_pc, nbatches>>
flagVars == <<websailor_enabled, social_search_enabled,
              screenshot_capture_enabled>>
runVars == <<pc, run, search_results, calls>>
workflowVars == <<files, tasks, nminted, query, reply, ack, download>>
\* what the registry's operations never touch
otherVars == <<scoreVars, viralVars, flagVars, runVars, workflowVars>>
\* what a pipeline run never touches
notRunVars == <<api_keys, callVars, scoreVars, viralVars, flagVars,
                workflowVars>>
\* what the workflow routes never touch
notWorkflowVars == <<keyVars, callVars, scoreVars, viralVars, flagVars,
                     runVars>>
vars == <<api_keys, key_indices, caller, log, raced, ncalls, last_call,
          post, viral_score, all_posts, viral_content, viral_pc, nbatches,
          websailor_enabled, social_search_enabled,
          screenshot_capture_enabled, pc, run, search_results, calls,
          files, tasks, nminted, query, reply, ack, download>>

---------------------------------------------------------------------------
(* Bounds of the model *)

\* numbered keys <PROVIDER>_API_KEY_1.. the environment may define
MaxNumbered == 1
\* threads that may be inside get_next_key at once
NumCallers == 2
\* get_next_key calls started in one behaviour of SpecKeys
MaxCalls == 4
\* SpecViral: batches of posts collected before viral selection
MaxBatches == 3
\* SpecViral: a batch is one post or RunLength posts alike
RunLength == 8
\* SpecCategory: how far around 6.0, 7.5 and 9.0 the enumerated scores
\* go, in thousandths
BoundaryMargin == 60
\* Spec: sources the deep crawl may report
MaxPages == 1
\* SpecWorkflow: session identifiers start_step1_collection may mint
MaxSessions == 2
\* SpecWorkflow: background threads the triggers may start
MaxTasks == 2
\* Spec: items a search API may return
MaxItems == 1
\* Spec: screenshots the capture collaborator may return
MaxShots == 1

---------------------------------------------------------------------------
(* The registry: __init__, _load_api_keys, get_next_key *)

\* self.providers, in declaration order
providers == <<"FIRECRAWL", "JINA", "GOOGLE", "EXA", "SERPER", "YOUTUBE">>

ProviderSet == {providers[i] : i \in 1..Len(providers)}

\* Providers for which the enumerated environments may define keys; the
\* others have none (which _load_api_keys tolerates for every provider).
EnvProviders == {"JINA", "GOOGLE"}

\* Python None
None == "None"

\* The environment as _load_api_keys reads it: per provider, whether
\* <P>_API_KEY is set and how many consecutive <P>_API_KEY_<n> are set.
\* A key is named by its provider and its number (0: the main key).
Envs ==
    { e \in [ProviderSet -> [main : BOOLEAN, numbered : 0..MaxNumbered]] :
        \A p \in ProviderSet \ EnvProviders :
            ~e[p].main /\ e[p].numbered = 0 }

\* keys of one provider: the main key first, then the numbered ones
LoadedKeys(e, p) ==
    (IF e[p].main THEN <<<<p, 0>>>> ELSE <<>>)
        \o [k \in 1..e[p].numbered |-> <<p, k>>]

\* _load_api_keys: a provider gets an entry only if it has a key
LoadApiKeys(e) ==
    LET keyed == {p \in ProviderSet : LoadedKeys(e, p) # <<>>}
    IN  [p \in keyed |-> LoadedKeys(e, p)]

\* self.key_indices after _load_api_keys
LoadKeyIndices(e) == [p \in DOMAIN LoadApiKeys(e) |-> 0]

\* get_next_key, line 71: no pool, or an empty one
UnavailableNoGuard(keys, provider) == FALSE

Unavailable(keys, provider) ==
    provider \notin DOMAIN keys \/ keys[provider] = <<>>

\* get_next_key, line 82: the rotated cursor
NextIndexNoWrap(current_index, n) == current_index + 1

NextIndexStuck(current_index, n) == current_index

NextIndex(current_index, n) == (current_index + 1) % n

\* get_next_key, lines 71-79: the guard, then the reads of the pool and of
\* the cursor. A lookup Python would fail raises.
GetNextKeyRead(keys, indices, provider) ==
    IF Unavailable(keys, provider)
    THEN [kind |-> "none"]
    ELSE IF provider \notin DOMAIN keys \/ provider \notin DOMAIN indices
    THEN [kind |-> "raise", exc |-> "KeyError"]
    ELSE IF indices[provider] + 1 \notin 1..Len(keys[provider])
    THEN [kind |-> "raise", exc |-> "IndexError"]
    ELSE [kind |-> "key",
          current_index |-> indices[provider],
          key |-> keys[provider][indices[provider] + 1]]

IdleCaller == [pc |-> "idle"]

Callers == 1..NumCallers

\* some other thread is between the read and the write for provider p
MidCall(p) == \E c \in Callers : caller[c].pc = "rotate" /\ caller[c].provider = p

\* get_next_key for a provider without keys (or a failed lookup): returns at once
GetNextKeyReturnNone(c, p) ==
    LET r == GetNextKeyRead(api_keys, key_indices, p) IN
    /\ caller[c].pc = "idle"
    /\ ncalls < MaxCalls
    /\ r.kind # "key"
    /\ ncalls' = ncalls + 1
    /\ last_call' = [n |-> last_call.n + 1, provider |-> p,
                     result |-> IF r.kind = "none" THEN None ELSE r.exc]
    /\ UNCHANGED <<api_keys, key_indices, caller, log, raced>>
    /\ UNCHANGED otherVars

\* get_next_key, lines 75-79: the thread reads the cursor and the key
GetNextKeyBegin(c, p) ==
    LET r == GetNextKeyRead(api_keys, key_indices, p) IN
    /\ caller[c].pc = "idle"
    /\ ncalls < MaxCalls
    /\ r.kind = "key"
    /\ caller' = [caller EXCEPT ![c] =
                    [pc |-> "rotate", provider |-> p,
                     current_index |-> r.current_index, key |-> r.key]]
    /\ raced' = [raced EXCEPT ![p] = @ \/ MidCall(p)]
    /\ ncalls' = ncalls + 1
    /\ UNCHANGED <<api_keys, key_indices, log, last_call>>
    /\ UNCHANGED otherVars

\* one cursor kept for all the providers
StoredForAll(indices, provider, index) ==
    [q \in DOMAIN indices |-> index]

\* line 82: self.key_indices[provider] = ...
Stored(indices, provider, index) ==
    [indices EXCEPT ![provider] = index]

\* get_next_key, lines 82-85: the thread stores the rotated cursor and returns
GetNextKeyEnd(c) ==
    LET p == caller[c].provider IN
    /\ caller[c].pc = "rotate"
    /\ key_indices' =
          Stored(key_indices, p,
                 NextIndex(caller[c].current_index, Len(api_keys[p])))
    /\ log' = [log EXCEPT ![p] = Append(@, caller[c].key)]
    /\ last_call' = [n |-> last_call.n + 1, provider |-> p,
                     result |-> caller[c].key]
    /\ caller' = [caller EXCEPT ![c] = IdleCaller]
    /\ UNCHANGED <<api_keys, raced, ncalls>>
    /\ UNCHANGED otherVars

InitRegistry ==
    \E e \in Envs :
        /\ api_keys = LoadApiKeys(e)
        /\ key_indices = LoadKeyIndices(e)

InitCallers ==
    /\ caller = [c \in Callers |-> IdleCaller]
    /\ log = [p \in ProviderSet |-> <<>>]
    /\ raced = [p \in ProviderSet |-> FALSE]
    /\ ncalls = 0
    /\ last_call = [n |-> 0, provider |-> None, result |-> None]

\* the registry of a process whose environment defines no key
InitNoKeys ==
    /\ api_keys = <<>>
    /\ key_indices = <<>>

\* nothing has been scored
InitNoScore ==
    /\ post = None
    /\ viral_score = None
    /\ all_posts = <<>>
    /\ viral_content = <<>>
    /\ viral_pc = "collecting"
    /\ nbatches = 0

\* __init__, lines 29-31
InitFlags ==
    /\ websailor_enabled = TRUE
    /\ social_search_enabled = TRUE
    /\ screenshot_capture_enabled = TRUE

\* no pipeline run
InitNoRun ==
    /\ pc = "idle"
    /\ run = <<>>
    /\ search_results = <<>>
    /\ calls = <<>>

\* no query in progress
IdleQuery == [pc |-> "idle"]

\* no query has returned
NoReply == [session |-> -1]

\* no request has reached the workflow routes
InitNoWorkflow ==
    /\ files = <<>>
    /\ tasks = <<>>
    /\ nminted = 0
    /\ query = IdleQuery
    /\ reply = NoReply
    /\ ack = NoReply
    /\ download = NoReply

InitKeys ==
    /\ InitRegistry
    /\ InitCallers
    /\ InitNoScore
    /\ InitFlags
    /\ InitNoRun
    /\ InitNoWorkflow

NextKeys ==
    \E c \in Callers :
        \/ \E p \in ProviderSet : GetNextKeyReturnNone(c, p)
        \/ \E p \in ProviderSet : GetNextKeyBegin(c, p)
        \/ GetNextKeyEnd(c)

SpecKeys == InitKeys /\ [][NextKeys]_vars

---------------------------------------------------------------------------
(* Claims about the key-rotation registry, checked under SpecKeys *)

\* how often key number j of provider p's pool was handed out
Handed(p, j) ==
    Cardinality({i \in 1..Len(log[p]) : log[p][i] = api_keys[p][j]})

\* C1: for a provider with N >= 1 keys whose calls never overlapped, the
\* i-th call returned key ((i-1) mod N) of the pool: N consecutive calls
\* return every key once in insertion order, call N+1 returns the first
\* again, and after k calls every key was handed out floor(k/N) or
\* ceil(k/N) times.
C1_RoundRobin ==
    \A p \in DOMAIN api_keys :
        ~raced[p] =>
            LET N == Len(api_keys[p])
                k == Len(log[p])
            IN  /\ \A i \in 1..k : log[p][i] = api_keys[p][((i - 1) % N) + 1]
                /\ \A j \in 1..N :
                      Handed(p, j) \in {k \div N, (k + N - 1) \div N}

\* a pool of N >= 2 keys was walked through once and one call more
C1_Witness ==
    \E p \in DOMAIN api_keys :
        /\ ~raced[p]
        /\ Len(api_keys[p]) >= 2
        /\ Len(log[p]) = Len(api_keys[p]) + 1

\* C2: a get_next_key call for a provider with an empty or absent pool
\* returns None (it does not raise) and changes no cursor and no pool.
C2_UnavailableReturnsNone ==
    [][ ( /\ last_call'.n # last_call.n
          /\ \/ last_call'.provider \notin DOMAIN api_keys
             \/ api_keys[last_call'.provider] = <<>> )
        => ( /\ last_call'.result = None
             /\ api_keys' = api_keys
             /\ key_indices' = key_indices ) ]_vars

\* a call for a provider without keys has returned None after some
\* cursor had already moved
C2_Witness ==
    /\ last_call.n > 0
    /\ last_call.provider \notin DOMAIN api_keys
    /\ last_call.result = None
    /\ \E p \in DOMAIN key_indices : key_indices[p] # 0

\* C3: in every reachable state, under any interleaving of calls, every
\* provider with a pool has a cursor c with 0 <= c < len(pool).
C3_CursorInRange ==
    \A p \in DOMAIN api_keys :
        /\ p \in DOMAIN key_indices
        /\ key_indices[p] \in 0..(Len(api_keys[p]) - 1)

\* overlapping calls have walked a pool of N >= 2 keys and its cursor has
\* wrapped to 0
C3_Witness ==
    \E p \in DOMAIN api_keys :
        /\ raced[p]
        /\ Len(api_keys[p]) >= 2
        /\ Len(log[p]) >= Len(api_keys[p])
        /\ key_indices[p] = 0

\* C4: cursor advancement is an atomic read-modify-write: for a pool of
\* N >= 2 keys, calls that complete one after the other return different
\* keys, and once no call is in progress the cursor has advanced by the
\* number of calls modulo N, also when the calls overlap.
C4_AtomicRotation ==
    \A p \in DOMAIN api_keys :
        Len(api_keys[p]) >= 2 =>
            /\ \A i \in 1..(Len(log[p]) - 1) : log[p][i] # log[p][i + 1]
            /\ ~MidCall(p) =>
                  key_indices[p] = Len(log[p]) % Len(api_keys[p])

\* C32: no step changes a pool or the set of cursors; a step that changes
\* the cursor of provider p is the return of a get_next_key(p), made by a
\* thread or by the turn of p in the API phase of a run, and it leaves
\* the cursor inside p's pool.
C32_PoolsNeverChange ==
    [][/\ api_keys' = api_keys
       /\ DOMAIN key_indices' = DOMAIN key_indices
       /\ \A p \in DOMAIN key_indices :
             key_indices'[p] # key_indices[p] =>
                 /\ key_indices'[p] \in 0..(Len(api_keys[p]) - 1)
                 /\ \/ \E c \in Callers :
                          /\ caller[c].pc = "rotate"
                          /\ caller[c].provider = p
                          /\ caller'[c].pc = "idle"
                    \/ /\ pc = "phase2"
                       /\ providers[run.i] = p
                       /\ run'.i = run.i + 1
      ]_vars

\* JINA's cursor has moved, GOOGLE's, whose pool is as large, has not
C32_Witness ==
    /\ {"JINA", "GOOGLE"} \subseteq DOMAIN api_keys
    /\ Len(api_keys["JINA"]) = Len(api_keys["GOOGLE"])
    /\ log["JINA"] # <<>>
    /\ key_indices["JINA"] = 1
    /\ key_indices["GOOGLE"] = 0

---------------------------------------------------------------------------
(* Python values and the viral scoring engine                              *)
(*                                                                         *)
(* A post is a Python dict: a function from its keys to values. The value  *)
(* under 'platform' is a string; every other value is tagged with its      *)
(* Python type. A float is held in fixed point, in units of 1/Unit; Unit   *)
(* is a multiple of every divisor of the four formulas, so that the score  *)
(* of integer counters is exact.                                           *)

Unit == 500000

IntV(n) == [t |-> "int", v |-> n]
FloatV(u) == [t |-> "float", v |-> u]
\* a string that is not the text of a number
StrV == [t |-> "str", v |-> 0]
NoneV == [t |-> "none", v |-> 0]

\* the value of a number, in units of 1/Unit
Num(x) == IF x.t = "int" THEN x.v * Unit ELSE x.v

IsNumber(x) == x.t \in {"int", "float"}

\* dict.get(key, default)
Get(d, key, default) == IF key \in DOMAIN d THEN d[key] ELSE default

\* int(x): an int as it is, a float truncated towards zero; a non-numeric
\* string raises ValueError and None raises TypeError
PyIntLenient(x) ==
    CASE x.t = "int" -> [ok |-> TRUE, v |-> x.v]
      [] x.t = "float" ->
            [ok |-> TRUE,
             v |-> IF x.v >= 0 THEN x.v \div Unit ELSE -((-x.v) \div Unit)]
      [] OTHER -> [ok |-> TRUE, v |-> 0]

PyInt(x) ==
    CASE x.t = "int" -> [ok |-> TRUE, v |-> x.v]
      [] x.t = "float" ->
            [ok |-> TRUE,
             v |-> IF x.v >= 0 THEN x.v \div Unit ELSE -((-x.v) \div Unit)]
      [] OTHER -> [ok |-> FALSE, v |-> 0]

\* int(post.get(primary, post.get(alternative, 0)))
Counter2(p, primary, alternative) ==
    PyInt(Get(p, primary, Get(p, alternative, IntV(0))))

\* int(post.get(key, 0))
Counter1(p, key) == PyInt(Get(p, key, IntV(0)))

\* min(10.0, score), lines 303, 312, 321, 330
ClampMissing(score) == score

Clamp(score) == IF score < 10 * Unit THEN score ELSE 10 * Unit

\* the weighted sums of lines 302-303, 311-312, 320-321 and 329-330, each
\* with its final division distributed over the terms:
\* (views/1000 + likes/100 + comments/10) / 100
YoutubeScore(views, likes, comments) ==
    views * (Unit \div 100000) + likes * (Unit \div 10000)
        + comments * (Unit \div 1000)

\* (likes/100 + comments/10 + shares/5) / 50
InstagramScore(likes, comments, shares) ==
    likes * (Unit \div 5000) + comments * (Unit \div 500)
        + shares * (Unit \div 250)

\* (retweets/10 + likes/50 + replies/5) / 20
TwitterScore(retweets, likes, replies) ==
    retweets * (Unit \div 200) + likes * (Unit \div 1000)
        + replies * (Unit \div 100)

\* (views/10000 + likes/500 + shares/100) / 50
TiktokScore(views, likes, shares) ==
    views * (Unit \div 500000) + likes * (Unit \div 25000)
        + shares * (Unit \div 5000)

\* the three counters a platform branch reads, each after int(); the
\* branch raises (and line 336 catches) as soon as one int() fails
Counters(p, platform) ==
    CASE platform = "youtube" ->
            <<Counter2(p, "view_count", "views"),
              Counter2(p, "like_count", "likes"),
              Counter2(p, "comment_count", "comments")>>
      [] platform \in {"instagram", "facebook"} ->
            <<Counter2(p, "likes", "like_count"),
              Counter2(p, "comments", "comment_count"),
              Counter1(p, "shares")>>
      [] platform = "twitter" ->
            <<Counter2(p, "retweets", "retweet_count"),
              Counter2(p, "likes", "like_count"),
              Counter2(p, "replies", "reply_count")>>
      [] platform = "tiktok" ->
            <<Counter2(p, "views", "view_count"),
              Counter1(p, "likes"),
              Counter1(p, "shares")>>

RecognizedPlatforms == {"youtube", "instagram", "facebook", "twitter", "tiktok"}

\* the score of a recognized platform before min(10.0, .)
RawScore(platform, c) ==
    CASE platform = "youtube" -> YoutubeScore(c[1].v, c[2].v, c[3].v)
      [] platform \in {"instagram", "facebook"} ->
            InstagramScore(c[1].v, c[2].v, c[3].v)
      [] platform = "twitter" -> TwitterScore(c[1].v, c[2].v, c[3].v)
      [] platform = "tiktok" -> TiktokScore(c[1].v, c[2].v, c[3].v)

\* post.get('relevance_score', 0) * 10, line 334: a number times 10; a
\* string repeated 10 times (no exception); None raises TypeError, which
\* line 336 catches
RelevanceScore(p) ==
    LET r == Get(p, "relevance_score", IntV(0)) IN
    CASE r.t = "int" -> IntV(r.v * 10)
      [] r.t = "float" -> FloatV(r.v * 10)
      [] r.t = "str" -> StrV
      [] OTHER -> FloatV(0)

\* _calculate_viral_score
calculate_viral_score(p) ==
    LET platform == Get(p, "platform", "unknown") IN
    IF platform \in RecognizedPlatforms
    THEN LET c == Counters(p, platform) IN
         IF \E i \in 1..3 : ~c[i].ok
         THEN FloatV(0)
         ELSE FloatV(Clamp(RawScore(platform, c)))
    ELSE RelevanceScore(p)

\* _categorize_viral_level
categorize_viral_level_strict(score) ==
    IF Num(score) > 9 * Unit THEN "MEGA_VIRAL"
    ELSE IF Num(score) > (15 * Unit) \div 2 THEN "VIRAL"
    ELSE IF Num(score) > 6 * Unit THEN "TRENDING"
    ELSE "POPULAR"

categorize_viral_level(score) ==
    IF Num(score) >= 9 * Unit THEN "MEGA_VIRAL"
    ELSE IF Num(score) >= (15 * Unit) \div 2 THEN "VIRAL"
    ELSE IF Num(score) >= 6 * Unit THEN "TRENDING"
    ELSE "POPULAR"

\* a descending sort that puts a post before the posts of its score
RECURSIVE SortByScoreUnstable(_)
SortByScoreUnstable(posts) ==
    IF Len(posts) <= 1 THEN posts
    ELSE LET rest == SortByScoreUnstable(SubSeq(posts, 1, Len(posts) - 1))
             x == posts[Len(posts)]
             pos == Cardinality({i \in 1..Len(rest) :
                        Num(Get(rest[i], "viral_score", IntV(0)))
                            > Num(Get(x, "viral_score", IntV(0)))})
         IN  SubSeq(rest, 1, pos) \o <<x>> \o SubSeq(rest, pos + 1, Len(rest))

\* the stable descending sort of line 286: list.sort(key=viral_score,
\* reverse=True) keeps posts of equal score in their original order
RECURSIVE SortByScore(_)
SortByScore(posts) ==
    IF Len(posts) <= 1 THEN posts
    ELSE LET rest == SortByScore(SubSeq(posts, 1, Len(posts) - 1))
             x == posts[Len(posts)]
             pos == Cardinality({i \in 1..Len(rest) :
                        Num(Get(rest[i], "viral_score", IntV(0)))
                            >= Num(Get(x, "viral_score", IntV(0)))})
         IN  SubSeq(rest, 1, pos) \o <<x>> \o SubSeq(rest, pos + 1, Len(rest))

\* the maximum count of line 289
MaxViral == 15

\* viral_posts[:15], line 289
TopNoLimit(posts) == posts

Top(posts) ==
    SubSeq(posts, 1, IF Len(posts) < MaxViral THEN Len(posts) ELSE MaxViral)

\* viral_score >= 6.0, line 280
AboveThreshold(score) == Num(score) >= 6 * Unit

\* lines 281-282: the post gets (or has overwritten) its two derived fields
Annotate(p, score) ==
    [k \in DOMAIN p \cup {"viral_score", "viral_category"} |->
        CASE k = "viral_score" -> score
          [] k = "viral_category" -> categorize_viral_level(score)
          [] OTHER -> p[k]]

\* the posts among the first n that line 283 appended, in collection order
RECURSIVE Selected(_, _)
Selected(posts, n) ==
    IF n = 0 THEN <<>>
    ELSE LET score == calculate_viral_score(posts[n]) IN
         IF AboveThreshold(score)
         THEN Append(Selected(posts, n - 1), Annotate(posts[n], score))
         ELSE Selected(posts, n - 1)

\* _identify_viral_content: what it returns or that it raises, and the
\* posts of social_results['all_posts'] as it leaves them (it writes the
\* derived fields into the dicts it was given). Comparing a score that is
\* not a number with 6.0 (line 280) raises TypeError past the function;
\* the posts before that one are already annotated.
identify_viral_content(posts) ==
    LET bad == {i \in 1..Len(posts) : ~IsNumber(calculate_viral_score(posts[i]))}
        stop == IF bad = {} THEN Len(posts)
                ELSE (CHOOSE i \in bad : \A j \in bad : i <= j) - 1
        left == [i \in 1..Len(posts) |->
                    LET score == calculate_viral_score(posts[i]) IN
                    IF i <= stop /\ AboveThreshold(score)
                    THEN Annotate(posts[i], score) ELSE posts[i]]
    IN  IF posts = <<>>
        THEN [raised |-> FALSE, value |-> <<>>, posts |-> posts]
        ELSE IF bad # {}
        THEN [raised |-> TRUE, value |-> <<>>, posts |-> left]
        ELSE [raised |-> FALSE,
              value |-> Top(SortByScore(Selected(posts, Len(posts)))),
              posts |-> left]

---------------------------------------------------------------------------
(* SpecScore: _calculate_viral_score applied to one post *)

\* the engagement counters the enumerated posts carry
CounterValues == {-6000, 0, 1, 6000, 30000, 60000}

\* the values the enumerated posts carry under a counter key
CounterInputs == {IntV(x) : x \in CounterValues} \cup {StrV, NoneV}

\* the ways a post may carry a counter that is read under two key names
Slot2(primary, alternative) ==
    {<<>>}
        \cup {primary :> x : x \in CounterInputs}
        \cup {alternative :> x : x \in CounterInputs}
        \cup {(primary :> IntV(1)) @@ (alternative :> IntV(6000)),
              (primary :> IntV(6000)) @@ (alternative :> IntV(1))}

\* and one read under a single key name
Slot1(key) == {<<>>} \cup {key :> x : x \in CounterInputs}

PlatformPosts(platform, slots1, slots2, slots3) ==
    {("platform" :> platform) @@ a @@ b @@ c :
        a \in slots1, b \in slots2, c \in slots3}

\* the values the enumerated posts carry under 'relevance_score'
RelevanceInputs ==
    {IntV(0), IntV(1), FloatV(0), FloatV((3 * Unit) \div 10),
     FloatV((6 * Unit) \div 10), FloatV(Unit), FloatV((3 * Unit) \div 2),
     FloatV(-(Unit \div 2)), StrV, NoneV}

\* posts of a platform without a formula of its own, and posts without
\* a 'platform' key
OtherPosts ==
    LET rel == {<<>>} \cup {"relevance_score" :> x : x \in RelevanceInputs}
    IN  {("platform" :> "linkedin") @@ r : r \in rel} \cup rel

ScorePosts ==
    PlatformPosts("youtube", Slot2("view_count", "views"),
                  Slot2("like_count", "likes"),
                  Slot2("comment_count", "comments"))
    \cup PlatformPosts("instagram", Slot2("likes", "like_count"),
                       Slot2("comments", "comment_count"), Slot1("shares"))
    \cup PlatformPosts("facebook", Slot2("likes", "like_count"),
                       Slot2("comments", "comment_count"), Slot1("shares"))
    \cup PlatformPosts("twitter", Slot2("retweets", "retweet_count"),
                       Slot2("likes", "like_count"),
                       Slot2("replies", "reply_count"))
    \cup PlatformPosts("tiktok", Slot2("views", "view_count"),
                       Slot1("likes"), Slot1("shares"))
    \cup OtherPosts

\* no score yet
Pending == [t |-> "pending", v |-> 0]

InitScore ==
    /\ InitNoKeys
    /\ InitCallers
    /\ InitFlags
    /\ InitNoRun
    /\ InitNoWorkflow
    /\ post \in ScorePosts
    /\ viral_score = Pending
    /\ all_posts = <<>>
    /\ viral_content = <<>>
    /\ viral_pc = "collecting"
    /\ nbatches = 0

CalculateViralScore ==
    /\ viral_score = Pending
    /\ viral_score' = calculate_viral_score(post)
    /\ UNCHANGED <<keyVars, callVars, post, viralVars, flagVars, runVars>>
    /\ UNCHANGED workflowVars

NextScore == CalculateViralScore

SpecScore == InitScore /\ [][NextScore]_vars

---------------------------------------------------------------------------
(* SpecViral: _identify_viral_content applied to a list of posts *)

\* The kinds of post the enumerated lists are made of, with their scores:
\* 6.0, 9.0, 7.5, 15.0 (a platform without a formula of its own, with
\* relevance 1.5) and -0.06 (a negative counter)
PostPool ==
    { ("platform" :> "twitter") @@ ("likes" :> IntV(6000)),
      ("platform" :> "youtube") @@ ("comment_count" :> IntV(6000))
            @@ ("like_count" :> IntV(30000)),
      ("platform" :> "facebook") @@ ("likes" :> IntV(30000))
            @@ ("shares" :> IntV(750)),
      ("platform" :> "linkedin")
            @@ ("relevance_score" :> FloatV((3 * Unit) \div 2)),
      ("platform" :> "youtube") @@ ("views" :> IntV(-6000)) }

\* k posts of one kind, told apart by the place they take in the list
Batch(kind, first, k) ==
    [i \in 1..k |-> kind @@ ("id" :> IntV(first + i - 1))]

InitViral ==
    /\ InitNoKeys
    /\ InitCallers
    /\ InitFlags
    /\ InitNoRun
    /\ InitNoWorkflow
    /\ post = None
    /\ viral_score = None
    /\ all_posts = <<>>
    /\ viral_content = <<>>
    /\ viral_pc = "collecting"
    /\ nbatches = 0

\* the social phase hands over some more posts
CollectPosts ==
    /\ viral_pc = "collecting"
    /\ nbatches < MaxBatches
    /\ \E kind \in PostPool, k \in {1, RunLength} :
          all_posts' = all_posts \o Batch(kind, Len(all_posts) + 1, k)
    /\ nbatches' = nbatches + 1
    /\ UNCHANGED <<keyVars, callVars, scoreVars, viral_content, viral_pc>>
    /\ UNCHANGED <<flagVars, runVars>>
    /\ UNCHANGED workflowVars

\* _identify_viral_content(social_results)
IdentifyViralContent ==
    LET r == identify_viral_content(all_posts) IN
    /\ viral_pc = "collecting"
    /\ viral_pc' = IF r.raised THEN "raised" ELSE "returned"
    /\ viral_content' = r.value
    /\ all_posts' = r.posts
    /\ UNCHANGED <<keyVars, callVars, scoreVars, nbatches, flagVars, runVars>>
    /\ UNCHANGED workflowVars

NextViral == CollectPosts \/ IdentifyViralContent

SpecViral == InitViral /\ [][NextViral]_vars

---------------------------------------------------------------------------
(* SpecCategory: _identify_viral_content applied to two posts whose scores *)
(* are one thousandth apart, around the thresholds of lines 341-346        *)

\* a twitter post with n likes scores (n/50)/20 = n/1000
LikesPost(n) == ("platform" :> "twitter") @@ ("likes" :> IntV(n))

\* the thresholds of lines 341, 343 and 345, in thousandths
CategoryThresholds == {6000, 7500, 9000}

BoundaryLikes ==
    UNION {(b - BoundaryMargin)..(b + BoundaryMargin) : b \in CategoryThresholds}

InitCategory ==
    /\ InitNoKeys
    /\ InitCallers
    /\ InitFlags
    /\ InitNoRun
    /\ InitNoWorkflow
    /\ post = None
    /\ viral_score = None
    /\ \E n \in BoundaryLikes :
          all_posts = <<LikesPost(n - 1) @@ ("id" :> IntV(1)),
                        LikesPost(n) @@ ("id" :> IntV(2))>>
    /\ viral_content = <<>>
    /\ viral_pc = "collecting"
    /\ nbatches = 0

NextCategory == IdentifyViralContent

SpecCategory == InitCategory /\ [][NextCategory]_vars

---------------------------------------------------------------------------
(* SpecBatch: _identify_viral_content applied to a post that scores 6.0    *)
(* followed by any one of the enumerated posts                             *)

InitBatch ==
    /\ InitNoKeys
    /\ InitCallers
    /\ InitFlags
    /\ InitNoRun
    /\ InitNoWorkflow
    /\ post = None
    /\ viral_score = None
    /\ \E p \in ScorePosts :
          all_posts = <<LikesPost(6000) @@ ("id" :> IntV(1)),
                        p @@ ("id" :> IntV(2))>>
    /\ viral_content = <<>>
    /\ viral_pc = "collecting"
    /\ nbatches = 0

NextBatch == IdentifyViralContent

SpecBatch == InitBatch /\ [][NextBatch]_vars

---------------------------------------------------------------------------
(* Spec: one pipeline run, execute_massive_search_with_websailor *)

\* A dict whose order of insertion matters (api_results, platform_results)
\* is a sequence of [key, value] entries.
DictKeys(d) == {d[i].key : i \in 1..Len(d)}

DictGet(d, k) == d[CHOOSE i \in 1..Len(d) : d[i].key = k].value

\* d[k] = v with the new key put first
DictSetFront(d, k, v) ==
    IF k \in DictKeys(d)
    THEN [i \in 1..Len(d) |->
            IF d[i].key = k THEN [key |-> k, value |-> v] ELSE d[i]]
    ELSE <<[key |-> k, value |-> v]>> \o d

\* d[k] = v: a new key goes last, a known key keeps its place
DictSet(d, k, v) ==
    IF k \in DictKeys(d)
    THEN [i \in 1..Len(d) |->
            IF d[i].key = k THEN [key |-> k, value |-> v] ELSE d[i]]
    ELSE Append(d, [key |-> k, value |-> v])

\* n opaque records (search results, sources, screenshots)
Items(n) == [k \in 1..n |-> k]

\* str(e) of the exceptions a collaborator may raise: asyncio.TimeoutError()
\* and many others carry no message
ExcMessages == {"", "Cannot connect to host"}

\* adapters that wrap the whole response into one result (lines 400, 457)
SingleResultProviders == {"JINA", "FIRECRAWL"}

\* What may happen in one adapter call: status 200 with n items, another
\* status, an exception of the HTTP call, GOOGLE_CSE_ID unset (GOOGLE
\* only).  Every adapter catches Exception around its whole body, so none
\* escapes to the loop that calls it.
AdapterResponses(provider) ==
    {[kind |-> "ok", n |-> n, msg |-> ""] :
        n \in IF provider \in SingleResultProviders THEN {1} ELSE 0..MaxItems}
    \cup {[kind |-> "status", n |-> 0, msg |-> "Status 500"]}
    \cup {[kind |-> "exc", n |-> 0, msg |-> m] : m \in ExcMessages}
    \cup (IF provider = "GOOGLE"
          THEN {[kind |-> "nocse", n |-> 0, msg |-> "CSE_ID nao configurado"]}
          ELSE {})

\* an adapter whose failed result carries an item all the same
SearchResultFailedWithItems(provider, resp) ==
    IF resp.kind = "ok"
    THEN [provider |-> provider, results |-> Items(resp.n), success |-> TRUE]
    ELSE [provider |-> provider, results |-> Items(1), success |-> FALSE,
          error |-> resp.msg]

\* _search_google .. _search_youtube: the dict an adapter returns
SearchResult(provider, resp) ==
    IF resp.kind = "ok"
    THEN [provider |-> provider, results |-> Items(resp.n), success |-> TRUE]
    ELSE [provider |-> provider, success |-> FALSE, error |-> resp.msg]

\* lines 218-220: what the loop records for an exception
CaughtResult(msg) == [success |-> FALSE, error |-> msg]

\* a turn that neither takes a key nor calls the adapter
ApiTurnNoCall(provider, resp, results) ==
    [indices |-> key_indices, results |-> results, called |-> <<>>]

\* a turn that calls the adapter again, with the next key, after a call
\* that did not succeed
ApiTurnRetry(provider, resp, results) ==
    LET r == GetNextKeyRead(api_keys, key_indices, provider)
        n == Len(api_keys[provider])
        again == NextIndex(r.current_index, n)
    IN  IF resp.kind = "ok"
        THEN [indices |-> [key_indices EXCEPT ![provider] = again],
              results |-> DictSet(results, provider,
                             SearchResult(provider, resp)),
              called |-> <<<<"adapter", provider, r.key, resp.kind>>>>]
        ELSE [indices |-> [key_indices EXCEPT ![provider] =
                              NextIndex(again, n)],
              results |-> DictSet(results, provider,
                             SearchResult(provider, resp)),
              called |-> <<<<"adapter", provider, r.key, resp.kind>>,
                           <<"adapter", provider,
                             api_keys[provider][again + 1], resp.kind>>>>]

\* a turn that records nothing for a call that did not succeed
ApiTurnFailureUnrecorded(provider, resp, results) ==
    LET r == GetNextKeyRead(api_keys, key_indices, provider) IN
    [indices |-> [key_indices EXCEPT ![provider] =
                    NextIndex(r.current_index, Len(api_keys[provider]))],
     results |-> IF resp.kind = "ok"
                 THEN DictSet(results, provider, SearchResult(provider, resp))
                 ELSE results,
     called |-> <<<<"adapter", provider, r.key, resp.kind>>>>]

\* One turn of the loop of _execute_api_rotation_search for a provider
\* that has an entry in api_keys (lines 193-220): the key is taken, the
\* cursor rotated, the adapter called and its result recorded; an
\* exception is recorded in its place.
ApiTurn(provider, resp, results) ==
    LET r == GetNextKeyRead(api_keys, key_indices, provider) IN
    CASE r.kind = "none" ->
            [indices |-> key_indices, results |-> results, called |-> <<>>]
      [] r.kind = "raise" ->
            [indices |-> key_indices,
             results |-> DictSet(results, provider, CaughtResult(r.exc)),
             called |-> <<>>]
      [] OTHER ->
            [indices |-> [key_indices EXCEPT ![provider] =
                            NextIndex(r.current_index, Len(api_keys[provider]))],
             results |-> DictSet(results, provider,
                            SearchResult(provider, resp)),
             called |-> <<<<"adapter", provider, r.key, resp.kind>>>>]

\* sum(len(result.get('results', [])) for result in api_results.values())
RECURSIVE ApiSources(_, _)
ApiSources(d, n) ==
    IF n = 0 THEN 0
    ELSE ApiSources(d, n - 1) + Len(Get(d[n].value, "results", <<>>))

\* line 230
social_platforms == <<"youtube", "instagram", "twitter", "tiktok", "facebook">>

\* the post the aggregator may find on a platform; they score 9.0, 0.002,
\* 6.0, 15.0 (a record that names no known platform), 7.5
PlatformPost(platform) ==
    CASE platform = "youtube" ->
            ("platform" :> "youtube") @@ ("comment_count" :> IntV(6000))
                @@ ("like_count" :> IntV(30000))
      [] platform = "instagram" ->
            ("platform" :> "instagram") @@ ("comments" :> IntV(1))
      [] platform = "twitter" ->
            ("platform" :> "twitter") @@ ("likes" :> IntV(6000))
      [] platform = "tiktok" ->
            ("platform" :> "tiktok_video")
                @@ ("relevance_score" :> FloatV((3 * Unit) \div 2))
      [] platform = "facebook" ->
            ("platform" :> "facebook") @@ ("likes" :> IntV(30000))
                @@ ("shares" :> IntV(750))

\* What may happen in one call of search_all_platforms, as far as the
\* platform of the turn goes: success with a list of posts, success=False,
\* an exception.
SocialResponses(platform) ==
    {[kind |-> "ok", posts |-> <<>>],
     [kind |-> "ok", posts |-> <<PlatformPost(platform)>>],
     [kind |-> "fail", posts |-> <<>>],
     [kind |-> "raise", posts |-> <<>>]}

\* lines 277-283 as they leave a list that holds some of the posts of
\* all_posts (the same dict objects): the selected ones are annotated
AnnotateSelected(posts) ==
    [i \in 1..Len(posts) |->
        LET score == calculate_viral_score(posts[i]) IN
        IF AboveThreshold(score) THEN Annotate(posts[i], score) ELSE posts[i]]

\* lines 98-115
NewSearchResults ==
    [websailor_results |-> <<>>,
     api_results |-> <<>>,
     social_results |-> <<>>,
     viral_content |-> <<>>,
     screenshots_captured |-> <<>>,
     statistics |-> [total_sources |-> 0, websailor_pages |-> 0,
                     api_sources |-> 0, social_posts |-> 0,
                     screenshots_count |-> 0]]

NewRun == [i |-> 1, j |-> 1, api_results |-> <<>>, all_posts |-> <<>>,
           platform_results |-> <<>>, last |-> None]

\* execute_massive_search_with_websailor is entered
StartRun ==
    /\ pc = "idle"
    /\ pc' = "phase1"
    /\ search_results' = NewSearchResults
    /\ run' = NewRun
    /\ UNCHANGED <<key_indices, calls, notRunVars>>

\* phase 1, line 120: deep crawl disabled
DeepCrawlSkipped ==
    /\ pc = "phase1"
    /\ ~websailor_enabled
    /\ pc' = "phase2"
    /\ UNCHANGED <<key_indices, run, search_results, calls, notRunVars>>

\* phase 1, lines 121-132: the crawl returns n sources
DeepCrawlReturns ==
    /\ pc = "phase1"
    /\ websailor_enabled
    /\ \E n \in 0..MaxPages :
          search_results' =
              [search_results EXCEPT !.websailor_results = Items(n),
                                     !.statistics.websailor_pages = n]
    /\ calls' = Append(calls, <<"websailor">>)
    /\ pc' = "phase2"
    /\ UNCHANGED <<key_indices, run, notRunVars>>

\* phase 1: the crawl raises; lines 182-184 log and raise again
DeepCrawlRaises ==
    /\ pc = "phase1"
    /\ websailor_enabled
    /\ calls' = Append(calls, <<"websailor">>)
    /\ pc' = "raised"
    /\ UNCHANGED <<key_indices, run, search_results, notRunVars>>

\* phase 2 with the adapter called for a provider that has no entry in
\* api_keys
ApiSkipCalling ==
    /\ pc = "phase2"
    /\ run.i <= Len(providers)
    /\ providers[run.i] \notin DOMAIN api_keys
    /\ run' = [run EXCEPT !.i = @ + 1]
    /\ calls' = Append(calls, <<"adapter", providers[run.i],
                                <<providers[run.i], 0>>, "exc">>)
    /\ UNCHANGED <<key_indices, pc, search_results, notRunVars>>

\* phase 2, line 192: a provider without an entry in api_keys is passed over
ApiSkip ==
    /\ pc = "phase2"
    /\ run.i <= Len(providers)
    /\ providers[run.i] \notin DOMAIN api_keys
    /\ run' = [run EXCEPT !.i = @ + 1]
    /\ UNCHANGED <<key_indices, pc, search_results, calls, notRunVars>>

\* phase 2, lines 193-220: a provider with an entry in api_keys
ApiSearch ==
    /\ pc = "phase2"
    /\ run.i <= Len(providers)
    /\ providers[run.i] \in DOMAIN api_keys
    /\ \E resp \in AdapterResponses(providers[run.i]) :
          LET t == ApiTurn(providers[run.i], resp, run.api_results) IN
          /\ key_indices' = t.indices
          /\ run' = [run EXCEPT !.i = @ + 1, !.api_results = t.results]
          /\ calls' = calls \o t.called
    /\ UNCHANGED <<pc, search_results, notRunVars>>

\* lines 136-140: the loop is over, the phase's results are stored
ApiDone ==
    /\ pc = "phase2"
    /\ run.i = Len(providers) + 1
    /\ search_results' =
          [search_results EXCEPT
              !.api_results = run.api_results,
              !.statistics.api_sources =
                  ApiSources(run.api_results, Len(run.api_results))]
    /\ pc' = "phase3"
    /\ UNCHANGED <<key_indices, run, calls, notRunVars>>

\* social search disabled, viral selection entered all the same
SocialDisabledSelecting ==
    /\ pc = "phase3"
    /\ ~social_search_enabled
    /\ pc' = "phase4"
    /\ UNCHANGED <<key_indices, run, search_results, calls, notRunVars>>

\* line 144: social search disabled; phases 3 to 5 are passed over
SocialDisabled ==
    /\ pc = "phase3"
    /\ ~social_search_enabled
    /\ pc' = "stats"
    /\ UNCHANGED <<key_indices, run, search_results, calls, notRunVars>>

\* lines 226-232: _execute_social_search is entered
SocialBegin ==
    /\ pc = "phase3"
    /\ social_search_enabled
    /\ pc' = "social"
    /\ UNCHANGED <<key_indices, run, search_results, calls, notRunVars>>

\* lines 227, 263-265: the aggregator cannot be imported
SocialImportFails ==
    /\ pc = "phase3"
    /\ social_search_enabled
    /\ search_results' =
          [search_results EXCEPT
              !.social_results =
                  [all_posts |-> <<>>, platform_results |-> <<>>,
                   error |-> "No module named 'services.mcp_supadata_manager'"],
              !.statistics.social_posts = 0]
    /\ pc' = "phase4"
    /\ UNCHANGED <<key_indices, run, calls, notRunVars>>

\* a turn that records nothing for a platform whose call raised
SocialTurnRaiseUnrecorded(platform, resp, posts, results) ==
    [all_posts |-> IF resp.kind = "ok" THEN posts \o resp.posts ELSE posts,
     platform_results |->
        IF resp.kind = "ok" THEN DictSet(results, platform, resp.posts)
        ELSE results]

\* a turn that appends the posts of a successful call without recording
\* them under the platform
SocialTurnUnmapped(platform, resp, posts, results) ==
    [all_posts |-> IF resp.kind = "ok" THEN posts \o resp.posts ELSE posts,
     platform_results |->
        IF resp.kind = "raise" THEN DictSet(results, platform, <<>>)
        ELSE results]

\* One turn of the loop of _execute_social_search (lines 234-254): on
\* success the platform's posts are appended and recorded (lines 242-245),
\* on success=False nothing is recorded, on an exception the platform is
\* recorded with an empty list (line 254).
SocialTurn(platform, resp, posts, results) ==
    [all_posts |-> IF resp.kind = "ok" THEN posts \o resp.posts ELSE posts,
     platform_results |->
        CASE resp.kind = "ok" -> DictSet(results, platform, resp.posts)
          [] resp.kind = "raise" -> DictSet(results, platform, <<>>)
          [] OTHER -> results]

\* lines 234-254: one platform; run.last keeps what its call did
SocialPlatform ==
    /\ pc = "social"
    /\ run.j <= Len(social_platforms)
    /\ \E resp \in SocialResponses(social_platforms[run.j]) :
          LET t == SocialTurn(social_platforms[run.j], resp,
                              run.all_posts, run.platform_results)
          IN  run' = [run EXCEPT !.j = @ + 1,
                                 !.all_posts = t.all_posts,
                                 !.platform_results = t.platform_results,
                                 !.last = resp.kind]
    /\ calls' = Append(calls, <<"social", social_platforms[run.j]>>)
    /\ UNCHANGED <<key_indices, pc, search_results, notRunVars>>

\* lines 256-261 and 145-149
SocialDone ==
    /\ pc = "social"
    /\ run.j = Len(social_platforms) + 1
    /\ search_results' =
          [search_results EXCEPT
              !.social_results =
                  [all_posts |-> run.all_posts,
                   platform_results |-> run.platform_results,
                   total_posts |-> Len(run.all_posts),
                   platforms_searched |-> social_platforms],
              !.statistics.social_posts = Len(run.all_posts)]
    /\ run' = [run EXCEPT !.last = None]
    /\ pc' = "phase4"
    /\ UNCHANGED <<key_indices, calls, notRunVars>>

\* phase 4, lines 153-154; an exception of _identify_viral_content leaves
\* the run through lines 182-184
ViralSelection ==
    LET r == identify_viral_content(search_results.social_results.all_posts) IN
    /\ pc = "phase4"
    /\ IF r.raised
       THEN /\ pc' = "raised"
            /\ UNCHANGED search_results
       ELSE /\ pc' = "phase5"
            /\ search_results' =
                  [search_results EXCEPT
                      !.viral_content = r.value,
                      !.social_results.all_posts = r.posts,
                      !.social_results.platform_results =
                          [i \in 1..Len(@) |->
                              [key |-> @[i].key,
                               value |-> AnnotateSelected(@[i].value)]]]
    /\ UNCHANGED <<key_indices, run, calls, notRunVars>>

\* line 157: if self.screenshot_capture_enabled and viral_content
CaptureWantedAlways == screenshot_capture_enabled

CaptureWanted ==
    screenshot_capture_enabled /\ search_results.viral_content # <<>>

\* phase 5, line 157: capture disabled, or nothing to capture
CaptureSkipped ==
    /\ pc = "phase5"
    /\ ~CaptureWanted
    /\ pc' = "stats"
    /\ UNCHANGED <<key_indices, run, search_results, calls, notRunVars>>

\* phase 5, lines 159-165: the capture collaborator returns n screenshots
CaptureReturns ==
    /\ pc = "phase5"
    /\ CaptureWanted
    /\ \E n \in 0..MaxShots :
          search_results' =
              [search_results EXCEPT !.screenshots_captured = Items(n),
                                     !.statistics.screenshots_count = n]
    /\ calls' = Append(calls, <<"capture">>)
    /\ pc' = "stats"
    /\ UNCHANGED <<key_indices, run, notRunVars>>

\* phase 5: the capture collaborator raises; lines 182-184 raise again
CaptureRaises ==
    /\ pc = "phase5"
    /\ CaptureWanted
    /\ calls' = Append(calls, <<"capture">>)
    /\ pc' = "raised"
    /\ UNCHANGED <<key_indices, run, search_results, notRunVars>>

\* lines 170-174
TotalSourcesWithoutApi(statistics) ==
    statistics.websailor_pages + statistics.social_posts

TotalSources(statistics) ==
    statistics.websailor_pages + statistics.api_sources
        + statistics.social_posts

\* lines 167-180: the final statistics; the run returns search_results
FinalStatistics ==
    /\ pc = "stats"
    /\ search_results' =
          [search_results EXCEPT
              !.statistics.total_sources = TotalSources(search_results.statistics)]
    /\ pc' = "returned"
    /\ UNCHANGED <<key_indices, run, calls, notRunVars>>

\* the environments of the runs: a provider has no key, or its main key
\* and every numbered one
RunEnvs ==
    {e \in Envs :
        \A p \in ProviderSet : e[p].main <=> e[p].numbered = MaxNumbered}

\* The manager as the process built it; the three feature flags are plain
\* attributes, set to True by __init__ and open to the deployment.
InitRun ==
    /\ \E e \in RunEnvs :
          /\ api_keys = LoadApiKeys(e)
          /\ key_indices = LoadKeyIndices(e)
    /\ InitCallers
    /\ InitNoScore
    /\ websailor_enabled \in BOOLEAN
    /\ social_search_enabled \in BOOLEAN
    /\ screenshot_capture_enabled \in BOOLEAN
    /\ InitNoRun
    /\ InitNoWorkflow

Next ==
    \/ StartRun
    \/ DeepCrawlSkipped
    \/ DeepCrawlReturns
    \/ DeepCrawlRaises
    \/ ApiSkip
    \/ ApiSearch
    \/ ApiDone
    \/ SocialDisabled
    \/ SocialBegin
    \/ SocialImportFails
    \/ SocialPlatform
    \/ SocialDone
    \/ ViralSelection
    \/ CaptureSkipped
    \/ CaptureReturns
    \/ CaptureRaises
    \/ FinalStatistics

Spec == InitRun /\ [][Next]_vars

\* SpecApi: a run up to the end of its API phase. Every adapter call ends:
\* each request carries timeout=30 (lines 372, 395, 420, 450, 477, 508)
\* and each adapter catches what its request raises, so the loop, which
\* awaits one call after the other, always takes its next turn.
NextApi ==
    \/ StartRun
    \/ DeepCrawlSkipped
    \/ DeepCrawlReturns
    \/ DeepCrawlRaises
    \/ ApiSkip
    \/ ApiSearch
    \/ ApiDone

SpecApi ==
    /\ InitRun
    /\ [][NextApi]_vars
    /\ WF_vars(ApiSkip)
    /\ WF_vars(ApiSearch)
    /\ WF_vars(ApiDone)

---------------------------------------------------------------------------
(* SpecWorkflow: the routes of enhanced_workflow.py, their background      *)
(* threads and the files they share                                        *)
(*                                                                         *)
(* A file is named by <<session, kind, stage>>:                            *)
(*   "artifact"  analyses_data/<session>/relatorio_coleta.md (stage 1),    *)
(*               resumo_sintese.json (2), relatorio_final.md (3)           *)
(*   "iniciada", "concluida", "erro"                                       *)
(*               what salvar_etapa("etapa<stage>_<kind>", ...) keeps       *)
(* and is "partial" from its creation until its content is written.        *)
(* Session 0 stands for an identifier that no trigger has minted.          *)

Stages == 1..3

FileExists(session, kind, stage) == <<session, kind, stage>> \in DOMAIN files

\* the files with one more, or one rewritten
WithFile(fs, session, kind, stage, state) ==
    (<<session, kind, stage>> :> state) @@ fs

\* salvar_etapa(name, data, categoria="workflow") of
\* services.auto_save_manager: the record is kept
SalvarEtapa(fs, session, kind, stage) ==
    WithFile(fs, session, kind, stage, "complete")

\* threading.Thread(target=..., daemon=True).start(), lines 139-140,
\* 235-236, 311-312; was_completed keeps whether the stage's artifact was
\* there when the thread was started
NewTask(session, stage) ==
    [session |-> session, stage |-> stage, pc |-> "running",
     was_completed |-> FileExists(session, "artifact", stage)]

\* the response that names no session
AcceptedAnonymous(session, stage) ==
    [success |-> TRUE, session |-> 0, stage |-> stage]

\* jsonify({"success": True, "session_id": session_id, "message": "Etapa
\* <stage> iniciada: ...", ...}), 200: lines 142-157, 237-244, 313-320
Accepted(session, stage) ==
    [success |-> TRUE, session |-> session, stage |-> stage]

\* POST /workflow/step1/start with a segment: lines 35, 71-76, 139-157;
\* nminted + 1 stands for the identifier of line 35 (the millisecond clock
\* and eight hex digits of uuid4), taken never to repeat
StartStep1 ==
    /\ nminted < MaxSessions
    /\ Len(tasks) < MaxTasks
    /\ nminted' = nminted + 1
    /\ files' = SalvarEtapa(files, nminted + 1, "iniciada", 1)
    /\ tasks' = Append(tasks, NewTask(nminted + 1, 1))
    /\ ack' = Accepted(nminted + 1, 1)
    /\ UNCHANGED <<query, reply, download, notWorkflowVars>>

\* POST /workflow/step2/start and /workflow/step3/start with a session
\* identifier, whatever it is: lines 172-183, 235-244 and 259-270, 311-320
StartLaterStep(session, stage) ==
    /\ session <= nminted
    /\ Len(tasks) < MaxTasks
    /\ files' = SalvarEtapa(files, session, "iniciada", stage)
    /\ tasks' = Append(tasks, NewTask(session, stage))
    /\ ack' = Accepted(session, stage)
    /\ UNCHANGED <<nminted, query, reply, download, notWorkflowVars>>

\* execute_collection, lines 87-107: the pipeline run returned and the
\* report was generated
CollectionReturns(i) ==
    /\ i \in DOMAIN tasks
    /\ tasks[i].stage = 1
    /\ tasks[i].pc = "running"
    /\ tasks' = [tasks EXCEPT ![i].pc = "report"]
    /\ UNCHANGED <<files, nminted, query, reply, ack, download, notWorkflowVars>>

\* _save_enhanced_collection_report, lines 964-968: the file is created
ReportOpened(i) ==
    /\ i \in DOMAIN tasks
    /\ tasks[i].pc = "report"
    /\ files' = WithFile(files, tasks[i].session, "artifact", 1, "partial")
    /\ tasks' = [tasks EXCEPT ![i].pc = "writing"]
    /\ UNCHANGED <<nminted, query, reply, ack, download, notWorkflowVars>>

\* lines 973-974: the directory or the file cannot be created; the
\* exception is logged and execute_collection goes on
ReportNotSaved(i) ==
    /\ i \in DOMAIN tasks
    /\ tasks[i].pc = "report"
    /\ tasks' = [tasks EXCEPT ![i].pc = "saved"]
    /\ UNCHANGED <<files, nminted, query, reply, ack, download, notWorkflowVars>>

\* lines 968-969: the content is written and the file closed
ReportWritten(i) ==
    /\ i \in DOMAIN tasks
    /\ tasks[i].pc = "writing"
    /\ files' = WithFile(files, tasks[i].session, "artifact", 1, "complete")
    /\ tasks' = [tasks EXCEPT ![i].pc = "saved"]
    /\ UNCHANGED <<nminted, query, reply, ack, download, notWorkflowVars>>

\* execute_synthesis, lines 188-211, and execute_generation, lines
\* 275-287: the collaborators return, having kept the stage's artifact
CollaboratorsReturn(i) ==
    /\ i \in DOMAIN tasks
    /\ tasks[i].stage \in {2, 3}
    /\ tasks[i].pc = "running"
    /\ files' = WithFile(files, tasks[i].session, "artifact",
                         tasks[i].stage, "complete")
    /\ tasks' = [tasks EXCEPT ![i].pc = "saved"]
    /\ UNCHANGED <<nminted, query, reply, ack, download, notWorkflowVars>>

\* lines 115-123, 214-220, 290-295: salvar_etapa("etapa<n>_concluida");
\* the thread ends
StageConcluded(i) ==
    /\ i \in DOMAIN tasks
    /\ tasks[i].pc = "saved"
    /\ files' = SalvarEtapa(files, tasks[i].session, "concluida",
                            tasks[i].stage)
    /\ tasks' = [tasks EXCEPT ![i].pc = "done"]
    /\ UNCHANGED <<nminted, query, reply, ack, download, notWorkflowVars>>

\* lines 129-135, 224-230, 300-306: the stage's work raises;
\* salvar_etapa("etapa<n>_erro"); the thread ends
StageRaises(i) ==
    /\ i \in DOMAIN tasks
    /\ tasks[i].pc = "running"
    /\ files' = SalvarEtapa(files, tasks[i].session, "erro", tasks[i].stage)
    /\ tasks' = [tasks EXCEPT ![i].pc = "done"]
    /\ UNCHANGED <<nminted, query, reply, ack, download, notWorkflowVars>>

\* lines 459-470
NewStatus ==
    [step_status |-> [k \in Stages |-> "pending"],
     current_step |-> 0,
     progress_percentage |-> 0,
     error |-> FALSE]

\* the percentages of stages 2 and 3 taken one for the other
ProgressOfSwapped == <<33, 100, 66>>

\* lines 475, 481, 487
ProgressOf == <<33, 66, 100>>

\* GET /workflow/status/<session_id> is entered; started keeps the threads
\* that had been started by then
StatusBegin(session) ==
    /\ session <= nminted
    /\ query.pc = "idle"
    /\ query' = [pc |-> "check", stage |-> 1, session |-> session,
                 status |-> NewStatus, started |-> 1..Len(tasks)]
    /\ UNCHANGED <<files, tasks, nminted, reply, ack, download, notWorkflowVars>>

\* lines 472-489: one os.path.exists and what follows from it
StatusCheck ==
    /\ query.pc = "check"
    /\ query' =
          [query EXCEPT
              !.status =
                  IF FileExists(query.session, "artifact", query.stage)
                  THEN [@ EXCEPT
                          !.step_status[query.stage] = "completed",
                          !.current_step = query.stage,
                          !.progress_percentage = ProgressOf[query.stage]]
                  ELSE @,
              !.stage = IF @ < 3 THEN @ + 1 ELSE @,
              !.pc = IF query.stage < 3 THEN "check" ELSE "errors"]
    /\ UNCHANGED <<files, tasks, nminted, reply, ack, download, notWorkflowVars>>

\* lines 492-499 with one pattern only
ErrorDetectedFirstOnly(fs, session) ==
    <<session, "erro", 1>> \in DOMAIN fs

\* lines 492-499: the three glob patterns, any of which matches
ErrorDetected(fs, session) ==
    \E k \in Stages : <<session, "erro", k>> \in DOMAIN fs

\* lines 491-501
StatusErrors ==
    /\ query.pc = "errors"
    /\ query' =
          [query EXCEPT
              !.status.error = ErrorDetected(files, query.session),
              !.pc = "return"]
    /\ UNCHANGED <<files, tasks, nminted, reply, ack, download, notWorkflowVars>>

\* get_workflow_status writes no file: the files as it leaves them
FilesAfterStatusTouched(fs, session) ==
    SalvarEtapa(fs, session, "iniciada", 1)

FilesAfterStatus(fs, session) == fs

\* line 503
StatusReturn ==
    /\ query.pc = "return"
    /\ reply' = [session |-> query.session, status |-> query.status]
    /\ query' = IdleQuery
    /\ files' = FilesAfterStatus(files, query.session)
    /\ UNCHANGED <<tasks, nminted, ack, download, notWorkflowVars>>

InitWorkflow ==
    /\ InitNoKeys
    /\ InitCallers
    /\ InitNoScore
    /\ InitFlags
    /\ InitNoRun
    /\ InitNoWorkflow

NextWorkflow ==
    \/ StartStep1
    \/ \E session \in 0..MaxSessions, stage \in {2, 3} :
          StartLaterStep(session, stage)
    \/ \E i \in 1..MaxTasks :
          \/ CollectionReturns(i)
          \/ ReportOpened(i)
          \/ ReportNotSaved(i)
          \/ ReportWritten(i)
          \/ CollaboratorsReturn(i)
          \/ StageConcluded(i)
          \/ StageRaises(i)
    \/ \E session \in 0..MaxSessions : StatusBegin(session)
    \/ StatusCheck
    \/ StatusErrors
    \/ StatusReturn

SpecWorkflow == InitWorkflow /\ [][NextWorkflow]_vars

---------------------------------------------------------------------------
(* SpecTrigger: the stage-start triggers, the requests that fail their     *)
(* validation included, and the threads of the accepted ones               *)

\* jsonify({"error": "... é obrigatório"}), 400: lines 44, 174, 261
Rejected(stage) ==
    [success |-> FALSE, status |-> 400, stage |-> stage]

\* a request without segment whose stage-started record is kept all the same
RejectStep1Persisting ==
    /\ nminted < MaxSessions
    /\ nminted' = nminted + 1
    /\ files' = SalvarEtapa(files, nminted + 1, "iniciada", 1)
    /\ ack' = Rejected(1)
    /\ UNCHANGED <<tasks, query, reply, download, notWorkflowVars>>

\* POST /workflow/step1/start whose 'segmento' is missing, empty or blank:
\* lines 32-44. The identifier of line 35 is a local of the request and is
\* dropped with it.
RejectStep1 ==
    /\ ack' = Rejected(1)
    /\ UNCHANGED <<files, tasks, nminted, query, reply, download,
                   notWorkflowVars>>

\* POST /workflow/step2/start and /workflow/step3/start whose 'session_id'
\* is missing or empty: lines 171-174 and 258-261
RejectLaterStep(stage) ==
    /\ ack' = Rejected(stage)
    /\ UNCHANGED <<files, tasks, nminted, query, reply, download,
                   notWorkflowVars>>

NextTrigger ==
    \/ StartStep1
    \/ \E session \in 0..MaxSessions, stage \in {2, 3} :
          StartLaterStep(session, stage)
    \/ RejectStep1
    \/ \E stage \in {2, 3} : RejectLaterStep(stage)
    \/ \E i \in 1..MaxTasks :
          \/ CollectionReturns(i)
          \/ ReportOpened(i)
          \/ ReportNotSaved(i)
          \/ ReportWritten(i)
          \/ CollaboratorsReturn(i)
          \/ StageConcluded(i)
          \/ StageRaises(i)

SpecTrigger == InitWorkflow /\ [][NextTrigger]_vars

---------------------------------------------------------------------------
(* SpecComplete: the complete-workflow trigger, its thread and the status  *)
(* query. Stage 0 stands for the whole workflow: <<session, "erro", 0>> is *)
(* the record "workflow_erro" of the session.                              *)

\* POST /workflow/complete, lines 334-443: the identifier of line 337,
\* the thread of lines 428-429, the response of lines 431-443; the
\* request is not validated and no stage-started record is kept
StartComplete ==
    /\ nminted < MaxSessions
    /\ Len(tasks) < MaxTasks
    /\ nminted' = nminted + 1
    /\ tasks' = Append(tasks, NewTask(nminted + 1, 0))
    /\ ack' = Accepted(nminted + 1, 0)
    /\ UNCHANGED <<files, query, reply, download, notWorkflowVars>>

\* execute_full_workflow, lines 343-426: a collaborator of lines 365-379
\* raises, or they return and line 382 raises NameError
\* (_generate_collection_report is defined nowhere in the module), so
\* that lines 385-413 are never reached; the handler of lines 420-426
\* keeps the record "workflow_erro" and the thread ends
CompleteRaises(i) ==
    /\ i \in DOMAIN tasks
    /\ tasks[i].stage = 0
    /\ tasks[i].pc = "running"
    /\ files' = SalvarEtapa(files, tasks[i].session, "erro", 0)
    /\ tasks' = [tasks EXCEPT ![i].pc = "done"]
    /\ UNCHANGED <<nminted, query, reply, ack, download, notWorkflowVars>>

NextComplete ==
    \/ StartComplete
    \/ \E i \in 1..MaxTasks : CompleteRaises(i)
    \/ \E session \in 0..MaxSessions : StatusBegin(session)
    \/ StatusCheck
    \/ StatusErrors
    \/ StatusReturn

SpecComplete == InitWorkflow /\ [][NextComplete]_vars

---------------------------------------------------------------------------
(* SpecDownload: download_workflow_file applied to a session directory     *)
(* that holds any of relatorio_final.md (<<session, "artifact", 3>>) and   *)
(* relatorio_final_completo.md (<<session, "completo", 3>>), each          *)
(* completely written or not                                               *)

FinalFile(session) == <<session, "artifact", 3>>
CompleteFile(session) == <<session, "completo", 3>>

\* the selectors of lines 576 and 582, and two others
FileTypes == {"final_report", "complete_report", "collection_report", ""}

\* GET /workflow/download/<session_id>/<file_type> is entered; read keeps
\* the files the query has looked at
DownloadBegin(session, file_type) ==
    /\ query.pc = "idle"
    /\ query' = [pc |-> "select", session |-> session,
                 file_type |-> file_type, read |-> {}]
    /\ UNCHANGED <<files, tasks, nminted, reply, ack, download,
                   notWorkflowVars>>

\* lines 576-580 without line 579-580
FilePathNoFallback(fs, session, file_type) ==
    IF file_type = "final_report" THEN FinalFile(session)
    ELSE CompleteFile(session)

\* lines 576-584, for the two selectors that name a report
FilePath(fs, session, file_type) ==
    IF file_type = "final_report"
    THEN IF FinalFile(session) \in DOMAIN fs
         THEN FinalFile(session)
         ELSE CompleteFile(session)
    ELSE CompleteFile(session)

\* lines 581, 584
DownloadName(file_type) ==
    IF file_type = "final_report" THEN "relatorio_final"
    ELSE "relatorio_completo"

DownloadReply(code, file, content, name) ==
    [session |-> query.session, file_type |-> query.file_type,
     code |-> code, file |-> file, content |-> content, name |-> name,
     read |-> query.read]

\* lines 576-584: the path is chosen
DownloadSelect ==
    /\ query.pc = "select"
    /\ query.file_type \in {"final_report", "complete_report"}
    /\ query' =
          [pc |-> "exists", session |-> query.session,
           file_type |-> query.file_type,
           read |-> IF query.file_type = "final_report"
                    THEN {FinalFile(query.session)} ELSE {},
           path |-> FilePath(files, query.session, query.file_type)]
    /\ UNCHANGED <<files, tasks, nminted, reply, ack, download,
                   notWorkflowVars>>

\* lines 585-586: any other selector
DownloadInvalid ==
    /\ query.pc = "select"
    /\ query.file_type \notin {"final_report", "complete_report"}
    /\ download' = DownloadReply(400, <<>>, "", "")
    /\ query' = IdleQuery
    /\ UNCHANGED <<files, tasks, nminted, reply, ack, notWorkflowVars>>

\* lines 588-589: the file is not there
DownloadNotFound ==
    /\ query.pc = "exists"
    /\ query.path \notin DOMAIN files
    /\ download' =
          [DownloadReply(404, <<>>, "", "")
              EXCEPT !.read = @ \cup {query.path}]
    /\ query' = IdleQuery
    /\ UNCHANGED <<files, tasks, nminted, reply, ack, notWorkflowVars>>

\* lines 588, 591-595: send_file
DownloadSend ==
    /\ query.pc = "exists"
    /\ query.path \in DOMAIN files
    /\ download' =
          [DownloadReply(200, query.path, files[query.path],
                         DownloadName(query.file_type))
              EXCEPT !.read = @ \cup {query.path}]
    /\ query' = IdleQuery
    /\ UNCHANGED <<files, tasks, nminted, reply, ack, notWorkflowVars>>

ReportFiles == {FinalFile(s) : s \in 1..MaxSessions}
                   \cup {CompleteFile(s) : s \in 1..MaxSessions}

InitDownload ==
    /\ InitNoKeys
    /\ InitCallers
    /\ InitNoScore
    /\ InitFlags
    /\ InitNoRun
    /\ \E present \in SUBSET ReportFiles :
          files \in [present -> {"partial", "complete"}]
    /\ tasks = <<>>
    /\ nminted = MaxSessions
    /\ query = IdleQuery
    /\ reply = NoReply
    /\ ack = NoReply
    /\ download = NoReply

NextDownload ==
    \/ \E session \in 0..MaxSessions, file_type \in FileTypes :
          DownloadBegin(session, file_type)
    \/ DownloadSelect
    \/ DownloadInvalid
    \/ DownloadNotFound
    \/ DownloadSend

SpecDownload == InitDownload /\ [][NextDownload]_vars

---------------------------------------------------------------------------
(* Claims about the pipeline run *)

\* the adapter calls of the run, as positions of the call log; an entry is
\* <<"adapter", provider, key, what happened>>
AdapterCalls == {i \in 1..Len(calls) : calls[i][1] = "adapter"}

Called == {calls[i][2] : i \in AdapterCalls}

\* the loop over the providers has ended and its results were stored
ApiPhaseOver ==
    /\ pc \notin {"idle", "phase1", "phase2"}
    /\ run.i = Len(providers) + 1

\* C5: once the API phase is over, for a provider whose call succeeded and
\* another whose call raised, api_results holds both: the first with
\* success = true and its items, the second with success = false and an
\* error string that is not empty; every provider with keys was called.
C5_MixedBatch ==
    ApiPhaseOver =>
        \A i, j \in AdapterCalls :
            (calls[i][4] = "ok" /\ calls[j][4] = "exc") =>
                LET res == search_results.api_results
                    a == DictGet(res, calls[i][2])
                    b == DictGet(res, calls[j][2])
                IN  /\ {calls[i][2], calls[j][2]} \subseteq DictKeys(res)
                    /\ a.success
                    /\ "results" \in DOMAIN a
                    /\ ~b.success
                    /\ b.error # ""
                    /\ DOMAIN api_keys \subseteq Called

C7_TotalSources ==
    pc = "returned" =>
        LET st == search_results.statistics IN
        /\ st.total_sources =
              st.websailor_pages + st.api_sources + st.social_posts
        /\ st.api_sources =
              ApiSources(search_results.api_results,
                         Len(search_results.api_results))
        /\ st.social_posts =
              (IF social_search_enabled
               THEN Len(search_results.social_results.all_posts)
               ELSE 0)
        /\ ~websailor_enabled =>
              /\ st.websailor_pages = 0
              /\ st.total_sources = st.api_sources + st.social_posts

\* a run returned with sources of the three kinds
C7_Witness ==
    /\ pc = "returned"
    /\ search_results.statistics.websailor_pages = 1
    /\ search_results.statistics.api_sources = 2
    /\ search_results.statistics.social_posts >= 2
    /\ search_results.statistics.total_sources >= 5

---------------------------------------------------------------------------
(* Claims about scoring and viral selection *)

\* the places of all_posts whose post was kept in viral_content
Kept == {i \in 1..Len(all_posts) :
            \E j \in 1..Len(viral_content) :
                viral_content[j]["id"] = all_posts[i]["id"]}

\* the number of posts of all_posts that score 6.0 or more
Eligible ==
    Cardinality({i \in 1..Len(all_posts) :
        Num(calculate_viral_score(all_posts[i])) >= 6 * Unit})

\* C8: viral selection returns a list in which every post has a score
\* >= 6.0, scores do not increase from first to last, there are at most
\* 15 posts, and no post left out scores more than a post that was kept:
\* the result is the top 15 of the posts at or above the threshold.
C8_ViralSelection ==
    viral_pc = "returned" =>
        /\ \A j \in 1..Len(viral_content) :
              /\ viral_content[j]["viral_score"]
                    = calculate_viral_score(viral_content[j])
              /\ Num(viral_content[j]["viral_score"]) >= 6 * Unit
        /\ \A j \in 1..(Len(viral_content) - 1) :
              Num(viral_content[j]["viral_score"])
                  >= Num(viral_content[j + 1]["viral_score"])
        /\ Len(viral_content) <= 15
        /\ Len(viral_content) = IF Eligible < 15 THEN Eligible ELSE 15
        /\ Cardinality(Kept) = Len(viral_content)
        /\ \A i \in (1..Len(all_posts)) \ Kept : \A j \in Kept :
              Num(calculate_viral_score(all_posts[i]))
                  <= Num(calculate_viral_score(all_posts[j]))

\* more than 15 posts reached the threshold, with different scores among
\* those kept, and some post at or above the threshold was cut
C8_Witness ==
    /\ viral_pc = "returned"
    /\ Eligible > 15
    /\ Len(viral_content) = 15
    /\ Num(viral_content[1]["viral_score"])
          > Num(viral_content[15]["viral_score"])
    /\ Len(all_posts) > Eligible

\* every counter the post carries is an integer >= 0
NonNegativeCounters(p) ==
    \A k \in DOMAIN p \ {"platform"} : p[k].t = "int" /\ p[k].v >= 0

\* C9: for a recognized platform and non-negative integer counters the
\* score is within [0, 10], and it is 0 when all counters are 0.
C9_ScoreInRange ==
    ( /\ viral_score # Pending
      /\ "platform" \in DOMAIN post
      /\ post["platform"] \in
            {"youtube", "instagram", "facebook", "twitter", "tiktok"}
      /\ NonNegativeCounters(post) )
    => /\ viral_score.t = "float"
       /\ viral_score.v >= 0
       /\ viral_score.v <= 10 * Unit
       /\ (\A k \in DOMAIN post \ {"platform"} : post[k].v = 0)
              => viral_score.v = 0

\* a twitter post with 60000 retweets: (60000/10)/20 = 300, returned as 10
C9_Witness ==
    /\ viral_score = FloatV(10 * Unit)
    /\ post = ("platform" :> "twitter") @@ ("retweets" :> IntV(60000))

\* a post carries its derived viral_score
Scored(p) == "viral_score" \in DOMAIN p

\* C10: the score is clamped to [0, 10] on every branch, so that every
\* post that carries a viral_score, in viral_content as in all_posts,
\* carries one within [0, 10].
C10_ScoreClamped ==
    /\ \A j \in 1..Len(viral_content) :
          /\ Num(viral_content[j]["viral_score"]) >= 0
          /\ Num(viral_content[j]["viral_score"]) <= 10 * Unit
    /\ \A i \in 1..Len(all_posts) :
          Scored(all_posts[i]) =>
              /\ Num(all_posts[i]["viral_score"]) >= 0
              /\ Num(all_posts[i]["viral_score"]) <= 10 * Unit

\* C11: the category is a step function of the score: MEGA_VIRAL from 9.0,
\* VIRAL from 7.5 to under 9.0, TRENDING from 6.0 to under 7.5, each
\* threshold belonging to the higher category; a post under 6.0 is left
\* out by viral selection and gets no category.
C11_CategorySteps ==
    viral_pc = "returned" =>
        \A i \in 1..Len(all_posts) :
            LET p == all_posts[i]
                s == Num(calculate_viral_score(p))
            IN  IF s < 6 * Unit
                THEN /\ "viral_category" \notin DOMAIN p
                     /\ i \notin Kept
                ELSE /\ "viral_category" \in DOMAIN p
                     /\ i \in Kept
                     /\ p["viral_category"] = "MEGA_VIRAL" <=> s >= 9 * Unit
                     /\ p["viral_category"] = "VIRAL"
                            <=> (2 * s >= 15 * Unit /\ s < 9 * Unit)
                     /\ p["viral_category"] = "TRENDING"
                            <=> (s >= 6 * Unit /\ 2 * s < 15 * Unit)
                     /\ p["viral_category"] # "POPULAR"

\* scores 5.999 and 6.0: the first post is left out, the second is TRENDING
C11_Witness ==
    /\ viral_pc = "returned"
    /\ Len(all_posts) = 2
    /\ all_posts[1] = LikesPost(5999) @@ ("id" :> IntV(1))
    /\ Len(viral_content) = 1
    /\ viral_content[1]["viral_score"] = FloatV(6 * Unit)
    /\ viral_content[1]["viral_category"] = "TRENDING"

\* the post carries, under a key of its own, a value that is not a number
Malformed(p) ==
    \E k \in DOMAIN p \ {"platform", "id", "viral_score", "viral_category"} :
        ~IsNumber(p[k])

\* C12: scoring never raises and gives a malformed post the numeric score
\* 0 on every branch, so that viral selection over a batch with a
\* malformed post returns.
C12_MalformedScoresZero ==
    /\ viral_pc # "raised"
    /\ viral_pc = "returned" =>
          \A i \in 1..Len(all_posts) :
              Malformed(all_posts[i]) =>
                  calculate_viral_score(all_posts[i]) = FloatV(0)

\* the key names of the three counters a platform branch reads, the name
\* read first and the name read in its absence
CounterKeys(platform) ==
    CASE platform = "youtube" ->
            <<<<"view_count", "views">>, <<"like_count", "likes">>,
              <<"comment_count", "comments">>>>
      [] platform \in {"instagram", "facebook"} ->
            <<<<"likes", "like_count">>, <<"comments", "comment_count">>,
              <<"shares", "shares">>>>
      [] platform = "twitter" ->
            <<<<"retweets", "retweet_count">>, <<"likes", "like_count">>,
              <<"replies", "reply_count">>>>
      [] platform = "tiktok" ->
            <<<<"views", "view_count">>, <<"likes", "likes">>,
              <<"shares", "shares">>>>

\* the post carries a counter under neither name
MissingCounter(p, keys) == keys[1] \notin DOMAIN p /\ keys[2] \notin DOMAIN p

\* the value the branch reads for a counter is not a number
NonNumericCounter(p, keys) ==
    ~MissingCounter(p, keys)
        /\ ~IsNumber(Get(p, keys[1], Get(p, keys[2], IntV(0))))

\* the same post with the counter set to 0, under the name it is read from
WithZero(p, keys) ==
    LET k == IF keys[1] \notin DOMAIN p /\ keys[2] \in DOMAIN p
             THEN keys[2] ELSE keys[1]
    IN  [x \in DOMAIN p \cup {k} |-> IF x = k THEN IntV(0) ELSE p[x]]

\* C13 as stated: a counter that is missing or not a number counts as 0
\* and the other counters still contribute: the score is that of the same
\* post with the counter set to 0.
C13_CounterAloneZero ==
    (viral_score # Pending /\ "platform" \in DOMAIN post
        /\ post["platform"] \in RecognizedPlatforms) =>
        \A j \in 1..3 :
            LET keys == CounterKeys(post["platform"])[j] IN
            (MissingCounter(post, keys) \/ NonNumericCounter(post, keys)) =>
                viral_score = calculate_viral_score(WithZero(post, keys))

\* C13, amended: a missing counter counts as 0 and the other counters
\* still contribute; a counter that is present and not a number makes the
\* whole score 0.0, whatever the other counters.
C13_MissingZeroNonNumericAll ==
    (viral_score # Pending /\ "platform" \in DOMAIN post
        /\ post["platform"] \in RecognizedPlatforms) =>
        \A j \in 1..3 :
            LET keys == CounterKeys(post["platform"])[j] IN
            /\ MissingCounter(post, keys) =>
                  viral_score = calculate_viral_score(WithZero(post, keys))
            /\ NonNumericCounter(post, keys) => viral_score = FloatV(0)

\* an instagram post with 6000 comments, no shares and likes that are not
\* a number was scored 0.0
C13_Witness ==
    /\ post = ("platform" :> "instagram") @@ ("likes" :> StrV)
                  @@ ("comments" :> IntV(6000))
    /\ viral_score = FloatV(0)

\* the score viral selection gave the post
ScoreOf(p) == Num(p["viral_score"])

\* C35: posts of equal score stand in viral_content in the order in which
\* they were collected, and a post that reached the threshold and was cut
\* by the limit of 15 was collected after every kept post of its score.
C35_TiesKeepCollectionOrder ==
    viral_pc = "returned" =>
        /\ \A j \in 1..(Len(viral_content) - 1) :
              ScoreOf(viral_content[j]) = ScoreOf(viral_content[j + 1]) =>
                  viral_content[j]["id"].v < viral_content[j + 1]["id"].v
        /\ \A i \in (1..Len(all_posts)) \ Kept : \A k \in Kept :
              (/\ Scored(all_posts[i])
               /\ ScoreOf(all_posts[i]) = ScoreOf(all_posts[k])) => k < i

\* more than 15 posts reached the threshold, and a post that was cut has
\* the score of the last post that was kept
C35_Witness ==
    /\ viral_pc = "returned"
    /\ Len(viral_content) = 15
    /\ \E i \in (1..Len(all_posts)) \ Kept :
          /\ Scored(all_posts[i])
          /\ ScoreOf(all_posts[i]) = ScoreOf(viral_content[15])
    /\ \E j \in 1..14 :
          ScoreOf(viral_content[j]) > ScoreOf(viral_content[15])

\* C33: every post of viral_content carries a viral_category among
\* TRENDING, VIRAL and MEGA_VIRAL, never POPULAR, and a post of all_posts
\* that is not in viral_content carries neither viral_score nor
\* viral_category.
C33_SelectedCategories ==
    viral_pc = "returned" =>
        /\ \A j \in 1..Len(viral_content) :
              /\ "viral_category" \in DOMAIN viral_content[j]
              /\ viral_content[j]["viral_category"]
                    \in {"TRENDING", "VIRAL", "MEGA_VIRAL"}
        /\ \A i \in (1..Len(all_posts)) \ Kept :
              /\ "viral_score" \notin DOMAIN all_posts[i]
              /\ "viral_category" \notin DOMAIN all_posts[i]

---------------------------------------------------------------------------
(* Claims about the phases of the pipeline run *)

\* the collaborator calls of the run of one kind, as positions of the log
CallsOf(kind) == {i \in 1..Len(calls) : calls[i][1] = kind}

\* the run raised before its API phase began: in phase 1
RaisedInPhase1 == pc = "raised" /\ run.i = 1

\* the run raised after its API phase: in phase 4 or 5
RaisedAfterSocial == pc = "raised" /\ run.i = Len(providers) + 1

C15_CaptureFailureAbsorbed ==
    CallsOf("capture") # {} => pc # "raised"

\* C16: an exception of the deep-crawl collaborator in phase 1 does not
\* abort the run: a run that called it goes on to its API phase.
C16_DeepCrawlFailureAbsorbed ==
    CallsOf("websailor") # {} => ~RaisedInPhase1

\* the platform the loop of the social phase visited last
LastPlatform == social_platforms[run.j - 1]

\* C17 as stated: a platform whose call raised or reported success=False
\* is recorded with an empty list.
C17_FailedMapsToEmpty ==
    (pc = "social" /\ run.j > 1 /\ run.last \in {"raise", "fail"}) =>
        /\ LastPlatform \in DictKeys(run.platform_results)
        /\ DictGet(run.platform_results, LastPlatform) = <<>>

\* one turn of the loop: what it does for its platform, and that it
\* leaves the entries and the posts of the others as they were
SocialTurnEffect ==
    (pc = "social" /\ run'.j = run.j + 1) =>
        LET platform == social_platforms[run.j]
            before == run.platform_results
            after == run'.platform_results
        IN  /\ run'.last = "raise" =>
                  /\ platform \in DictKeys(after)
                  /\ DictGet(after, platform) = <<>>
                  /\ run'.all_posts = run.all_posts
            /\ run'.last = "fail" =>
                  /\ platform \notin DictKeys(after)
                  /\ run'.all_posts = run.all_posts
            /\ run'.last = "ok" =>
                  /\ platform \in DictKeys(after)
                  /\ run'.all_posts
                        = run.all_posts \o DictGet(after, platform)
            /\ DictKeys(after) \subseteq DictKeys(before) \cup {platform}
            /\ \A q \in DictKeys(before) :
                  /\ q \in DictKeys(after)
                  /\ DictGet(after, q) = DictGet(before, q)

\* the loop is left only after the five platforms, visited in the order
\* of line 230, and by storing the phase's result
SocialLoopComplete ==
    (pc = "social" /\ pc' # "social") =>
        /\ run.j = Len(social_platforms) + 1
        /\ [k \in 1..Len(social_platforms) |->
                calls[CHOOSE i \in CallsOf("social") :
                        Cardinality({h \in CallsOf("social") : h <= i}) = k][2]]
              = social_platforms
        /\ pc' = "phase4"
        /\ search_results'.social_results.platforms_searched = social_platforms

\* C17, amended: a platform whose call raised is recorded with an empty
\* list; one whose call reported success=False gets no entry at all; in
\* both cases the posts and the entries of the other platforms are left
\* as they were; the phase visits the five platforms and returns.
C17_FailedPlatformAlone ==
    [][SocialTurnEffect /\ SocialLoopComplete]_vars

\* youtube returned a post, the call for instagram raised, the call for
\* twitter reported success=False
C17_Witness ==
    /\ pc = "social"
    /\ run.j = 4
    /\ run.last = "fail"
    /\ DictKeys(run.platform_results) = {"youtube", "instagram"}
    /\ DictGet(run.platform_results, "instagram") = <<>>
    /\ run.all_posts = <<PlatformPost("youtube")>>

\* the adapter calls made for provider p
CallsFor(p) == {i \in AdapterCalls : calls[i][2] = p}

\* C28: in a run, a provider with keys is called at most once, with the
\* key its cursor stood on when the run began (the first of its pool);
\* its cursor has advanced by the number of calls modulo the size of its
\* pool; once the API phase is over it was called exactly once, whatever
\* the call returned or raised.
C28_OneCredentialPerRun ==
    \A p \in DOMAIN api_keys :
        /\ Cardinality(CallsFor(p)) <= 1
        /\ \A i \in CallsFor(p) : calls[i][3] = api_keys[p][1]
        /\ key_indices[p] = Cardinality(CallsFor(p)) % Len(api_keys[p])
        /\ ApiPhaseOver => Cardinality(CallsFor(p)) = 1

\* the API phase is over; one provider's call returned results, another's
\* raised, and the cursor of each stands one further
C28_Witness ==
    /\ ApiPhaseOver
    /\ \E i, j \in AdapterCalls :
          /\ calls[i][4] = "ok"
          /\ calls[j][4] = "exc"
          /\ key_indices[calls[i][2]] = 1 % Len(api_keys[calls[i][2]])
          /\ key_indices[calls[j][2]] = 1 % Len(api_keys[calls[j][2]])

\* the place of each provider in self.providers, of each platform in the
\* platform list
ProviderPlace ==
    [p \in ProviderSet |-> CHOOSE i \in 1..Len(providers) : providers[i] = p]

PlatformPlace ==
    [p \in {social_platforms[i] : i \in 1..Len(social_platforms)} |->
        CHOOSE i \in 1..Len(social_platforms) : social_platforms[i] = p]

\* the keys of the dict d have a place, and stand in the order of their
\* places, none twice
KeysFollow(d, place) ==
    /\ \A i \in 1..Len(d) : d[i].key \in DOMAIN place
    /\ \A i \in 1..(Len(d) - 1) : place[d[i].key] < place[d[i + 1].key]

\* the values of the first n entries of the dict d, one after the other
RECURSIVE ValuesInOrder(_, _)
ValuesInOrder(d, n) ==
    IF n = 0 THEN <<>> ELSE ValuesInOrder(d, n - 1) \o d[n].value

\* C29: at every point of a run the entries of api_results stand in the
\* order of self.providers, the entries of platform_results in the order
\* of the platform list, and all_posts is the posts of these platforms one
\* after the other in that order, whatever each call returned or raised;
\* the results the run stores and returns are in the same order.
C29_DeclarationOrder ==
    pc # "idle" =>
        /\ KeysFollow(run.api_results, ProviderPlace)
        /\ KeysFollow(run.platform_results, PlatformPlace)
        /\ run.all_posts
              = ValuesInOrder(run.platform_results, Len(run.platform_results))
        /\ KeysFollow(search_results.api_results, ProviderPlace)
        /\ search_results.social_results # <<>> =>
              /\ KeysFollow(search_results.social_results.platform_results,
                            PlatformPlace)
              /\ search_results.social_results.all_posts
                    = ValuesInOrder(
                          search_results.social_results.platform_results,
                          Len(search_results.social_results.platform_results))

\* the run returned: the call of JINA failed, that of GOOGLE succeeded,
\* and JINA's entry stands before GOOGLE's; instagram raised, and the
\* posts are those of youtube and twitter, in that order
C29_Witness ==
    /\ pc = "returned"
    /\ Len(search_results.api_results) = 2
    /\ search_results.api_results[1].key = "JINA"
    /\ search_results.api_results[2].key = "GOOGLE"
    /\ ~search_results.api_results[1].value.success
    /\ search_results.api_results[2].value.success
    /\ search_results.social_results # <<>>
    /\ Len(search_results.social_results.all_posts) = 2
    /\ search_results.social_results.all_posts[1]["platform"] = "youtube"
    /\ search_results.social_results.all_posts[2]["platform"] = "twitter"
    /\ DictGet(search_results.social_results.platform_results, "instagram")
          = <<>>

\* the lengths of the values of the first n entries of the dict d, added up
RECURSIVE SumLengths(_, _)
SumLengths(d, n) ==
    IF n = 0 THEN 0 ELSE SumLengths(d, n - 1) + Len(d[n].value)

\* C34: in the result the social phase stores, all_posts is the lists of
\* platform_results one after the other, in the order of the platform
\* list, and total_posts = len(all_posts) = the sum of the lengths of
\* these lists, whichever calls succeeded, reported success=False or
\* raised; statistics.social_posts is the same number. (The result of
\* lines 263-265, given when the aggregator cannot be loaded and no
\* platform is visited, has no total_posts and two empty collections.)
C34_SocialResultConsistent ==
    (pc # "idle" /\ search_results.social_results # <<>>) =>
        LET r == search_results.social_results
            n == Len(r.platform_results)
        IN  /\ KeysFollow(r.platform_results, PlatformPlace)
            /\ r.all_posts = ValuesInOrder(r.platform_results, n)
            /\ Len(r.all_posts) = SumLengths(r.platform_results, n)
            /\ search_results.statistics.social_posts = Len(r.all_posts)
            /\ IF "error" \in DOMAIN r
               THEN r.all_posts = <<>> /\ r.platform_results = <<>>
               ELSE r.total_posts = Len(r.all_posts)

\* the run returned: two platforms gave a post each, the call of one
\* raised, the calls of the two others reported success=False
C34_Witness ==
    /\ pc = "returned"
    /\ search_results.social_results # <<>>
    /\ "error" \notin DOMAIN search_results.social_results
    /\ search_results.social_results.total_posts = 2
    /\ Len(search_results.social_results.platform_results) = 3
    /\ \E i \in 1..3 :
          search_results.social_results.platform_results[i].value = <<>>

\* the steps a run takes from one place to the next
PhaseSteps ==
    {<<"idle", "phase1">>, <<"phase1", "phase2">>, <<"phase1", "raised">>,
     <<"phase2", "phase3">>, <<"phase3", "social">>, <<"phase3", "phase4">>,
     <<"phase3", "stats">>, <<"social", "phase4">>, <<"phase4", "phase5">>,
     <<"phase4", "raised">>, <<"phase5", "stats">>, <<"phase5", "raised">>,
     <<"stats", "returned">>}

\* the place of the run in which a collaborator of each kind is called
PlaceOfCall ==
    [websailor |-> "phase1", adapter |-> "phase2", social |-> "social",
     capture |-> "phase5"]

\* C36: a run goes through deep crawl, keyed APIs, social search, viral
\* selection and capture in this order, each collaborator being called in
\* its own phase only; with social search disabled the run goes from the
\* API phase to the final statistics, calls neither the aggregator nor the
\* capture collaborator, and returns social_posts = 0, no viral_content,
\* no screenshot and screenshots_count = 0; every returned run has
\* screenshots_count = len(screenshots_captured).
C36_PhasesInOrder ==
    [][/\ pc' # pc => <<pc, pc'>> \in PhaseSteps
       /\ calls' # calls =>
             /\ Len(calls') = Len(calls) + 1
             /\ SubSeq(calls', 1, Len(calls)) = calls
             /\ PlaceOfCall[calls'[Len(calls')][1]] = pc
       /\ (pc = "phase3" /\ pc' = "stats") <=>
             (pc = "phase3" /\ ~social_search_enabled)
       /\ (pc = "phase3" /\ pc' = "stats") =>
             /\ search_results' = search_results
             /\ search_results.social_results = <<>>
       /\ pc' = "returned" =>
             /\ search_results'.statistics.screenshots_count
                   = Len(search_results'.screenshots_captured)
             /\ ~social_search_enabled =>
                   /\ search_results'.statistics.social_posts = 0
                   /\ search_results'.viral_content = <<>>
                   /\ search_results'.screenshots_captured = <<>>
                   /\ search_results'.statistics.screenshots_count = 0
                   /\ CallsOf("social") = {}
                   /\ CallsOf("capture") = {}
      ]_vars

\* a run that went through the five phases returned: the crawl, an
\* adapter, the aggregator and the capture collaborator were called
C36_Witness ==
    /\ pc = "returned"
    /\ CallsOf("websailor") # {}
    /\ CallsOf("adapter") # {}
    /\ CallsOf("social") # {}
    /\ CallsOf("capture") # {}
    /\ search_results.viral_content # <<>>
    /\ search_results.statistics.screenshots_count > 0
    /\ search_results.statistics.screenshots_count
          = Len(search_results.screenshots_captured)

\* the items of the successful ones among the first n entries of d
RECURSIVE SuccessfulItems(_, _)
SuccessfulItems(d, n) ==
    IF n = 0 THEN 0
    ELSE SuccessfulItems(d, n - 1)
            + (IF d[n].value.success THEN Len(d[n].value.results) ELSE 0)

\* an entry of api_results with success = false has no 'results'
FailedCarryNothing(d) ==
    \A i \in 1..Len(d) :
        ~d[i].value.success =>
            /\ "results" \notin DOMAIN d[i].value
            /\ "error" \in DOMAIN d[i].value

\* C40: a result with success = false, returned by an adapter or recorded
\* by the loop for an exception, carries no items, and once the API phase
\* has stored its results api_sources is the number of items of the
\* successful providers.
C40_FailedContributeNothing ==
    pc # "idle" =>
        /\ FailedCarryNothing(run.api_results)
        /\ FailedCarryNothing(search_results.api_results)
        /\ pc \notin {"phase1", "phase2"} =>
              /\ search_results.api_results = run.api_results
              /\ search_results.statistics.api_sources
                    = SuccessfulItems(search_results.api_results,
                                      Len(search_results.api_results))

\* the API phase is over: the call of JINA failed, that of GOOGLE gave
\* one item, and api_sources is 1
C40_Witness ==
    /\ pc = "phase3"
    /\ Len(search_results.api_results) = 2
    /\ search_results.api_results[1].key = "JINA"
    /\ ~search_results.api_results[1].value.success
    /\ search_results.api_results[2].value.success
    /\ Len(search_results.api_results[2].value.results) = 1
    /\ search_results.statistics.api_sources = 1

\* C30: in a run of a manager that loaded no key at all, no adapter is
\* called, no cursor exists or changes, api_results stays empty and
\* api_sources 0, the API phase always has its next step and hands over
\* to phase 3; if the run raises, it does so in phase 1 or after the
\* social phase, never in the API phase.
C30_NoCredentials ==
    DOMAIN api_keys = {} =>
        /\ AdapterCalls = {}
        /\ DOMAIN key_indices = {}
        /\ pc # "idle" =>
              /\ run.api_results = <<>>
              /\ search_results.api_results = <<>>
              /\ search_results.statistics.api_sources = 0
        /\ pc = "phase2" => ENABLED (ApiSkip \/ ApiDone)
        /\ pc = "raised" => RaisedInPhase1 \/ RaisedAfterSocial

\* a manager without any key ran its pipeline, found a social post and
\* returned
C30_Witness ==
    /\ DOMAIN api_keys = {}
    /\ pc = "returned"
    /\ search_results.statistics.api_sources = 0
    /\ search_results.statistics.total_sources > 0

\* the API phase has ended: every provider with keys was called once and
\* has the entry of its own call, failed exactly when that call did not
\* succeed; no other provider has an entry
ApiPhaseComplete ==
    /\ pc = "phase3"
    /\ DictKeys(search_results.api_results) = DOMAIN api_keys
    /\ \A p \in DOMAIN api_keys :
          /\ Cardinality(CallsFor(p)) = 1
          /\ \A i \in CallsFor(p) :
                DictGet(search_results.api_results, p).success
                    <=> calls[i][4] = "ok"

\* C31: every adapter call ending, a run that has entered its API phase
\* leaves it, with every provider that has keys attempted and each
\* failure recorded for its provider only.
C31_ApiPhaseTerminates ==
    (pc = "phase2") ~> ApiPhaseComplete

\* the API phase has ended; the call of JINA raised (a timeout has no
\* message) and the call of GOOGLE, made after it, returned results
C31_Witness ==
    /\ ApiPhaseComplete
    /\ \E i, j \in AdapterCalls :
          /\ i < j
          /\ calls[i][2] = "JINA" /\ calls[i][4] = "exc"
          /\ DictGet(search_results.api_results, "JINA").error = ""
          /\ calls[j][2] = "GOOGLE" /\ calls[j][4] = "ok"

---------------------------------------------------------------------------
(* Claims about the workflow routes, checked under SpecWorkflow *)

\* the threads of stage 1 (the stage whose artifact execute_collection
\* writes itself) of the query's session that were started before the
\* query began and have not ended
UnfinishedAtQuery ==
    {i \in query.started :
        /\ tasks[i].session = query.session
        /\ tasks[i].stage = 1
        /\ tasks[i].pc # "done"}

\* C18: a status query that began after the trigger of stage 1 had
\* returned and returns before the stage's thread has ended reports for
\* that stage what it would have reported before the trigger; it never
\* waits for a thread.
C18_StatusBeforeCompletion ==
    /\ query.pc = "return" =>
          \A i \in UnfinishedAtQuery :
              query.status.step_status[tasks[i].stage]
                  = IF tasks[i].was_completed THEN "completed" ELSE "pending"
    /\ query.pc # "idle" => ENABLED (StatusCheck \/ StatusErrors \/ StatusReturn)

\* C19: a step of a status query, for a session that exists or not,
\* changes no file (artifact, error record or other), starts no thread,
\* mints no session and leaves the registry of keys as it is.
C19_StatusPureRead ==
    [][(query' # query \/ reply' # reply) =>
          /\ files' = files
          /\ tasks' = tasks
          /\ nminted' = nminted
          /\ key_indices' = key_indices
          /\ api_keys' = api_keys]_vars

\* a query for a session nobody minted has returned, while a thread of
\* session 1 is writing its report
C19_Witness ==
    /\ reply.session = 0
    /\ query.pc = "idle"
    /\ \E i \in DOMAIN tasks : tasks[i].session = 1 /\ tasks[i].pc = "writing"
    /\ FileExists(1, "artifact", 1)

\* C20: the threads started for one session follow each other in rising
\* order of stage: no stage is started twice and none after a later one.
C20_StagesMonotonic ==
    \A i, j \in DOMAIN tasks :
        (i < j /\ tasks[i].session = tasks[j].session) =>
            tasks[i].stage < tasks[j].stage

\* the replies of status queries for sessions a start-collection trigger
\* minted
MintedReply == reply.session \in 1..nminted

AllCompleted(status) ==
    \A k \in Stages : status.step_status[k] = "completed"

\* C21: a status reply for a session never reports a stage completed while
\* an earlier stage is pending, and reports progress 100 only with all
\* three stages completed.
C21_StagesInOrder ==
    MintedReply =>
        /\ \A k, j \in Stages :
              (k < j /\ reply.status.step_status[j] = "completed") =>
                  reply.status.step_status[k] = "completed"
        /\ reply.status.progress_percentage = 100 =>
              AllCompleted(reply.status)

\* C22: a thread whose stage raises leaves the error record of its session
\* and stage; no file is ever removed; a status query whose glob runs
\* while an error record of its session exists carries the error flag; a
\* stage whose artifact exists when the query looks is reported completed,
\* and stays so until the reply, which is the status as it was built.
C22_ErrorPersisted ==
    [][/\ \A i \in DOMAIN tasks :
             (tasks[i].pc = "running" /\ tasks'[i].pc = "done") =>
                 <<tasks[i].session, "erro", tasks[i].stage>>
                     \in DOMAIN files'
       /\ DOMAIN files \subseteq DOMAIN files'
       /\ (/\ query.pc = "errors"
           /\ query' # query
           /\ \E k \in Stages : FileExists(query.session, "erro", k))
             => query'.status.error
       /\ (/\ query.pc = "check"
           /\ query' # query
           /\ FileExists(query.session, "artifact", query.stage))
             => query'.status.step_status[query.stage] = "completed"
       /\ (query.pc \in {"check", "errors"} /\ query' # query) =>
             \A k \in Stages :
                 query.status.step_status[k] = "completed" =>
                     query'.status.step_status[k] = "completed"
       /\ (query.pc = "return" /\ query' # query) =>
             reply' = [session |-> query.session, status |-> query.status]
      ]_vars

\* the collection of session 1 completed, its synthesis raised, and a
\* status query answered: step1 completed, with the error flag
C22_Witness ==
    /\ FileExists(1, "concluida", 1)
    /\ FileExists(1, "erro", 2)
    /\ reply.session = 1
    /\ reply.status.error
    /\ reply.status.step_status[1] = "completed"
    /\ reply.status.step_status[2] = "pending"

\* the thread i is the only one started for its session and stage
OnlyExecution(i) ==
    \A j \in DOMAIN tasks :
        (tasks[j].session = tasks[i].session /\ tasks[j].stage = tasks[i].stage)
            => j = i

\* C23: a thread that has ended has left its stage's artifact, complete,
\* or its stage's error record, and not both when it was the only thread
\* of its session and stage; in particular a collection whose report could
\* not be written has left the error record.
C23_OneOutcome ==
    \A i \in DOMAIN tasks :
        tasks[i].pc = "done" =>
            LET a == /\ FileExists(tasks[i].session, "artifact", tasks[i].stage)
                     /\ files[<<tasks[i].session, "artifact", tasks[i].stage>>]
                            = "complete"
                e == FileExists(tasks[i].session, "erro", tasks[i].stage)
            IN  /\ a \/ e
                /\ OnlyExecution(i) => ~(a /\ e)

\* C24: a status query that finds a stage's artifact, and reports the
\* stage completed, finds it completely written.
C24_ArtifactsAtomic ==
    [][(/\ query.pc = "check"
        /\ query' # query
        /\ query'.status.step_status[query.stage] = "completed")
          => files[<<query.session, "artifact", query.stage>>] = "complete"
      ]_vars

\* C25: of the threads started for one session and one stage, at most one
\* has not ended.
C25_OneExecutor ==
    \A i, j \in DOMAIN tasks :
        (/\ i # j
         /\ tasks[i].session = tasks[j].session
         /\ tasks[i].stage = tasks[j].stage
         /\ tasks[i].pc # "done")
            => tasks[j].pc = "done"

LastTask == tasks[Len(tasks)]

\* the accepted acknowledgment that names the session and stage of thread t
Acknowledges(a, t) ==
    /\ a.success
    /\ a.session = t.session
    /\ a.stage = t.stage

ProgressValues == {0, 33, 66, 100}

\* C39: every reply carries a progress of 0, 33, 66 or 100; a reply that
\* follows a reply to the same session carries a progress that is not
\* lower, and reports completed every stage the earlier one reported
\* completed.
C39_ProgressMonotone ==
    [][(query.pc = "return" /\ query' # query) =>
          /\ reply'.session = query.session
          /\ reply'.status.progress_percentage \in ProgressValues
          /\ reply.session = query.session =>
                /\ reply'.status.progress_percentage
                      >= reply.status.progress_percentage
                /\ \A k \in Stages :
                      reply.status.step_status[k] = "completed" =>
                          reply'.status.step_status[k] = "completed"
      ]_vars

\* session 1 was answered 33, and the next query of session 1 is about to
\* answer 66
C39_Witness ==
    /\ reply.session = 1
    /\ reply.status.progress_percentage = 33
    /\ query.pc = "return"
    /\ query.session = 1
    /\ query.status.progress_percentage = 66
    /\ query.status.step_status[1] = "completed"

---------------------------------------------------------------------------
(* Claims about the download query, checked under SpecDownload *)

\* C27: a download answers 404 exactly when the file it was asked for is
\* not in the session's directory (for final_report: neither
\* relatorio_final.md nor relatorio_final_completo.md), answers with the
\* file and its content otherwise (relatorio_final.md before its
\* fallback), and answers 400 to any other selector without having looked
\* at a file.
C27_DownloadNotFound ==
    download # NoReply =>
        LET final == FinalFile(download.session)
            complete == CompleteFile(download.session)
            wanted ==
                IF download.file_type = "final_report"
                THEN IF final \in DOMAIN files THEN {final}
                     ELSE {complete} \cap DOMAIN files
                ELSE {complete} \cap DOMAIN files
        IN  IF download.file_type \in {"final_report", "complete_report"}
            THEN /\ download.code = 404 <=> wanted = {}
                 /\ download.code # 404 =>
                       /\ download.code = 200
                       /\ wanted = {download.file}
                       /\ download.content = files[download.file]
            ELSE /\ download.code = 400
                 /\ download.read = {}

\* relatorio_final.md is missing, its fallback is there, and final_report
\* was answered with the fallback
C27_Witness ==
    /\ download # NoReply
    /\ download.file_type = "final_report"
    /\ download.code = 200
    /\ FinalFile(download.session) \notin DOMAIN files
    /\ download.file = CompleteFile(download.session)


---------------------------------------------------------------------------
(* Claims about the rejected triggers, checked under SpecTrigger *)

\* C37: a trigger that fails its validation (no segment for stage 1, no
\* session identifier for stages 2 and 3) answers 400 with an error,
\* persists no record and starts no thread; only a step that answers with
\* the accepted acknowledgment persists a stage-started record or starts
\* a thread.
C37_RejectedTriggerNoEffect ==
    [][ack' # ack =>
          IF ack'.success
          THEN /\ tasks' = Append(tasks, LastTask')
               /\ <<ack'.session, "iniciada", ack'.stage>> \in DOMAIN files'
          ELSE /\ ack'.status = 400
               /\ ack'.stage \in Stages
               /\ files' = files
               /\ tasks' = tasks
               /\ nminted' = nminted
      ]_vars

\* a collection was started, then a synthesis trigger without session
\* identifier was rejected: only the collection's record and thread exist
C37_Witness ==
    /\ ack = Rejected(2)
    /\ Len(tasks) = 1
    /\ tasks[1].stage = 1
    /\ tasks[1].pc = "running"
    /\ DOMAIN files = {<<1, "iniciada", 1>>}


---------------------------------------------------------------------------
(* Claims about the complete-workflow trigger, checked under SpecComplete *)

\* C38: a status query whose search for error records runs after the
\* thread of the session's complete workflow has failed carries the
\* error flag.
C38_CompleteFailureReported ==
    [][(/\ query.pc = "errors"
        /\ query' # query
        /\ \E i \in DOMAIN tasks :
              /\ tasks[i].session = query.session
              /\ tasks[i].stage = 0
              /\ tasks[i].pc = "done"
              /\ FileExists(query.session, "erro", 0))
          => query'.status.error
      ]_vars

===========================================================================
